---- MODULE Spec2Model ----
(***************************************************************************)
(* A model of tree-sitter-jass: the external scanner (src/src/scanner.c)   *)
(* and the grammar drafts (src/grammar.js holds drafts 1 and 2,            *)
(* src/README.md holds draft 3).                                           *)
(*                                                                         *)
(* Three machines share the module, each with its own specification:      *)
(*   SpecScan   one call of tree_sitter_jass_external_scanner_scan, one    *)
(*              step per branch decision or advance;                       *)
(*   SpecExpr   the shift/reduce parse of one expression, conflicts        *)
(*              resolved by the prec.left / prec.right annotations;        *)
(*   SpecGram   derivations of the grammar's productions, and SpecParse,   *)
(*              the same derivations driven by an input token sequence.    *)
(***************************************************************************)
EXTENDS Integers, Sequences, FiniteSets, TLC

VARIABLES
    input,          \* scanner: the characters from the scan position on
    valid_symbols,  \* scanner: [ID, COMMENT, STRING_CONTENT -> BOOLEAN]
    pos,            \* scanner: index of lexer->lookahead in input
    pc,             \* scanner: position in the scan function
    result_symbol,  \* scanner: lexer->result_symbol
    ret,            \* scanner: "none" while running, then "true" or "false"
    has_content,    \* scanner: the local of the string branch
    buf,            \* scanner: buf[0..len-1] of the identifier branch
    len,            \* scanner: len of the identifier branch
    draft,          \* expression parse: the grammar draft in force (1, 2, 3)
    toks,           \* expression parse: the tokens of the expression
    tpos,           \* expression parse: index of the lookahead token
    stack,          \* expression parse: the parse stack, tokens and expr nodes
    status,         \* expression parse: "parsing", "accept" or "error"
    gdraft,         \* derivation: the grammar draft in force (1, 2, 3)
    gmode,          \* derivation: "derive" (tokens are produced) or "parse"
    gform,          \* derivation: what is still to be derived, first first
    gopen,          \* derivation: the nodes under construction, innermost last
    gtree,          \* derivation: the finished nodes, in the order finished
    gcount,         \* derivation: the number of tokens produced or consumed
    gin,            \* parse: the input tokens
    gdiags,         \* parse: the diagnostics, in the order found
    gstatus,        \* derivation: "running" or "done"
    ldraft,         \* lexer: the grammar draft in force (1, 2, 3)
    ltext,          \* lexer: the characters ahead
    lkind,          \* lexer: the token rule that matched, or "none"
    lend,           \* lexer: the number of characters of the token
    lstatus,        \* lexer: "ready" or "done"
    payload,        \* session: what external_scanner_create returned
    written,        \* session: what the last serialize returned, -1 before it
    probe,          \* session: the input and flags whose scans are compared
    seen            \* session: the results the scans of probe have given

scanVars == <<input, valid_symbols, pos, pc, result_symbol, ret, has_content, buf, len>>
exprVars == <<draft, toks, tpos, stack, status>>

gramVars == <<gdraft, gmode, gform, gopen, gtree, gcount, gin, gdiags, gstatus>>

lexVars == <<ldraft, ltext, lkind, lend, lstatus>>

sessVars == <<payload, written, probe, seen>>

vars == <<scanVars, exprVars, gramVars, lexVars, sessVars>>

\* a machine that is not the one running
ScanIdle ==
    /\ input = << >>
    /\ valid_symbols = [k \in {"ID", "COMMENT", "STRING_CONTENT"} |-> FALSE]
    /\ pos = 0
    /\ pc = "idle"
    /\ result_symbol = "NONE"
    /\ ret = "none"
    /\ has_content = FALSE
    /\ buf = << >>
    /\ len = 0
ExprIdle ==
    /\ draft = 0
    /\ toks = << >>
    /\ tpos = 0
    /\ stack = << >>
    /\ status = "idle"
LexIdle ==
    /\ ldraft = 0
    /\ ltext = << >>
    /\ lkind = "none"
    /\ lend = 0
    /\ lstatus = "idle"
SessIdle ==
    /\ payload = "NULL"
    /\ written = -1
    /\ probe = << >>
    /\ seen = {}
GramIdle ==
    /\ gdraft = 0
    /\ gmode = "idle"
    /\ gform = << >>
    /\ gopen = << >>
    /\ gtree = << >>
    /\ gcount = 0
    /\ gin = << >>
    /\ gdiags = << >>
    /\ gstatus = "idle"

(***************************************************************************)
(* Characters.  A character is a one-character string; NUL is the          *)
(* lookahead tree-sitter reports at end of input (0).                      *)
(***************************************************************************)
NUL == "NUL"
QUOTE == "\""
BACKSLASH == "\\"
SLASH == "/"
LF == "\n"
CR == "\r"

Lower == {"a","b","c","d","e","f","g","h","i","j","k","l","m","n","o","p","q","r","s","t","u","v","w","x","y","z"}
Upper == {"A","B","C","D","E","F","G","H","I","J","K","L","M","N","O","P","Q","R","S","T","U","V","W","X","Y","Z"}
Digit == {"0","1","2","3","4","5","6","7","8","9"}

iswalpha(c) == c \in Lower \cup Upper
iswalnum(c) == c \in Lower \cup Upper \cup Digit

(***************************************************************************)
(* The string literals of is_keyword.                                      *)
(***************************************************************************)
W_and == <<"a","n","d">>
W_array == <<"a","r","r","a","y">>
W_call == <<"c","a","l","l">>
W_constant == <<"c","o","n","s","t","a","n","t">>
W_else == <<"e","l","s","e">>
W_elseif == <<"e","l","s","e","i","f">>
W_endfunction == <<"e","n","d","f","u","n","c","t","i","o","n">>
W_endglobals == <<"e","n","d","g","l","o","b","a","l","s">>
W_endif == <<"e","n","d","i","f">>
W_endloop == <<"e","n","d","l","o","o","p">>
W_exitwhen == <<"e","x","i","t","w","h","e","n">>
W_extends == <<"e","x","t","e","n","d","s">>
W_function == <<"f","u","n","c","t","i","o","n">>
W_globals == <<"g","l","o","b","a","l","s">>
W_if == <<"i","f">>
W_local == <<"l","o","c","a","l">>
W_loop == <<"l","o","o","p">>
W_native == <<"n","a","t","i","v","e">>
W_not == <<"n","o","t">>
W_nothing == <<"n","o","t","h","i","n","g">>
W_or == <<"o","r">>
W_return == <<"r","e","t","u","r","n">>
W_returns == <<"r","e","t","u","r","n","s">>
W_set == <<"s","e","t">>
W_takes == <<"t","a","k","e","s">>
W_then == <<"t","h","e","n">>
W_type == <<"t","y","p","e">>

\* memcmp(str, w, n) == 0, for n <= the length of both
memcmp0(str, w, n) == \A k \in 1..n : str[k] = w[k]

\* A variant of is_keyword: the length tests are dropped, so a reserved word
\* is matched as a prefix of the run.
is_keyword_prefix(str, n) ==
    \E w \in {W_and, W_array, W_call, W_constant, W_else, W_elseif, W_endfunction,
              W_endglobals, W_endif, W_endloop, W_exitwhen, W_extends, W_function,
              W_globals, W_if, W_local, W_loop, W_native, W_not, W_nothing, W_or,
              W_return, W_returns, W_set, W_takes, W_then, W_type} :
        /\ Len(w) <= n
        /\ memcmp0(str, w, Len(w))

\* A variant of is_keyword: the case 'o' (the word `or`) is missing.
is_keyword_no_or(str, n) ==
    \E w \in {W_and, W_array, W_call, W_constant, W_else, W_elseif, W_endfunction,
              W_endglobals, W_endif, W_endloop, W_exitwhen, W_extends, W_function,
              W_globals, W_if, W_local, W_loop, W_native, W_not, W_nothing,
              W_return, W_returns, W_set, W_takes, W_then, W_type} :
        Len(w) = n /\ memcmp0(str, w, n)

\* A variant of is_keyword: the case 's' (the word `set`) is missing.
is_keyword_no_set(str, n) ==
    \E w \in {W_and, W_array, W_call, W_constant, W_else, W_elseif, W_endfunction,
              W_endglobals, W_endif, W_endloop, W_exitwhen, W_extends, W_function,
              W_globals, W_if, W_local, W_loop, W_native, W_not, W_nothing, W_or,
              W_return, W_returns, W_takes, W_then, W_type} :
        Len(w) = n /\ memcmp0(str, w, n)

\* static bool is_keyword(const char *str, size_t len): str is 1-based here.
is_keyword(str, n) ==
    IF n < 2 \/ n > 11 THEN FALSE
    ELSE CASE str[1] = "a" ->
                 \/ (n = 3 /\ str[2] = "n" /\ str[3] = "d")
                 \/ (n = 5 /\ memcmp0(str, W_array, 5))
           [] str[1] = "c" ->
                 \/ (n = 4 /\ memcmp0(str, W_call, 4))
                 \/ (n = 8 /\ memcmp0(str, W_constant, 8))
           [] str[1] = "e" ->
                 \/ (n = 4 /\ memcmp0(str, W_else, 4))
                 \/ (n = 5 /\ memcmp0(str, W_endif, 5))
                 \/ (n = 6 /\ memcmp0(str, W_elseif, 6))
                 \/ (n = 7 /\ memcmp0(str, W_extends, 7))
                 \/ (n = 7 /\ memcmp0(str, W_endloop, 7))
                 \/ (n = 8 /\ memcmp0(str, W_exitwhen, 8))
                 \/ (n = 10 /\ memcmp0(str, W_endglobals, 10))
                 \/ (n = 11 /\ memcmp0(str, W_endfunction, 11))
           [] str[1] = "f" ->
                 (n = 8 /\ memcmp0(str, W_function, 8))
           [] str[1] = "g" ->
                 (n = 7 /\ memcmp0(str, W_globals, 7))
           [] str[1] = "i" ->
                 (n = 2 /\ str[2] = "f")
           [] str[1] = "l" ->
                 \/ (n = 4 /\ memcmp0(str, W_loop, 4))
                 \/ (n = 5 /\ memcmp0(str, W_local, 5))
           [] str[1] = "n" ->
                 \/ (n = 3 /\ memcmp0(str, W_not, 3))
                 \/ (n = 6 /\ memcmp0(str, W_native, 6))
                 \/ (n = 7 /\ memcmp0(str, W_nothing, 7))
           [] str[1] = "o" ->
                 (n = 2 /\ str[2] = "r")
           [] str[1] = "r" ->
                 \/ (n = 6 /\ memcmp0(str, W_return, 6))
                 \/ (n = 7 /\ memcmp0(str, W_returns, 7))
           [] str[1] = "s" ->
                 (n = 3 /\ memcmp0(str, W_set, 3))
           [] str[1] = "t" ->
                 \/ (n = 4 /\ (memcmp0(str, W_then, 4) \/ memcmp0(str, W_type, 4)))
                 \/ (n = 5 /\ memcmp0(str, W_takes, 5))
           [] OTHER -> FALSE

\* enum TokenType
ID == "ID"
COMMENT == "COMMENT"
STRING_CONTENT == "STRING_CONTENT"
TokenType == {ID, COMMENT, STRING_CONTENT}

\* char buf[256]; the loop guard is len < 255
IdMax == 255

(***************************************************************************)
(* The lexer handed to the scanner.                                        *)
(***************************************************************************)
\* lexer->lookahead
lookahead == IF pos <= Len(input) THEN input[pos] ELSE NUL

\* advance(lexer): at end of input the position does not move
advance == IF pos <= Len(input) THEN pos + 1 ELSE pos

(***************************************************************************)
(* Inputs of one scan.                                                     *)
(***************************************************************************)
MaxLen == 4

Sigma == {"i", "f", "1", "_", SLASH, QUOTE, BACKSLASH, LF, CR}

\* every character sequence over Sigma of at most MaxLen characters
ShortInputs == UNION {[1..k -> Sigma] : k \in 0..MaxLen}

W_true == <<"t","r","u","e">>
W_false == <<"f","a","l","s","e">>
W_null == <<"n","u","l","l">>

\* the reserved words of the specification, and its literal constants
ReservedWords ==
    {W_and, W_array, W_call, W_constant, W_else, W_elseif, W_endfunction,
     W_endglobals, W_endif, W_endloop, W_exitwhen, W_extends, W_function,
     W_globals, W_if, W_local, W_loop, W_native, W_not, W_nothing, W_or,
     W_return, W_returns, W_set, W_takes, W_then, W_type}
LiteralWords == {W_true, W_false, W_null}

ToUpper(c) ==
    CASE c = "a" -> "A" [] c = "c" -> "C" [] c = "e" -> "E" [] c = "f" -> "F"
      [] c = "g" -> "G" [] c = "i" -> "I" [] c = "l" -> "L" [] c = "n" -> "N"
      [] c = "o" -> "O" [] c = "r" -> "R" [] c = "s" -> "S" [] c = "t" -> "T"
      [] OTHER -> c

\* a word, and the runs next to it: another letter case, one character more,
\* one character less, a leading underscore
Variants(w) ==
    {w,
     <<ToUpper(w[1])>> \o Tail(w),
     w \o <<"N">>,
     w \o <<"1">>,
     SubSeq(w, 1, Len(w) - 1),
     <<"_">> \o w}

\* what follows the run: nothing, or a character that ends it
Suffixes == {<< >>, <<" ">>, <<"(", ")">>}

WordInputs ==
    {v \o s : v \in UNION {Variants(w) : w \in ReservedWords \cup LiteralWords},
              s \in Suffixes}

\* runs as long as the identifier buffer, one shorter and one longer
LongInputs == {[k \in 1..n |-> "x"] : n \in {IdMax - 1, IdMax, IdMax + 1}}

ScanInputs == ShortInputs \cup WordInputs \cup LongInputs

(***************************************************************************)
(* bool tree_sitter_jass_external_scanner_scan(payload, lexer,             *)
(*                                             valid_symbols)              *)
(***************************************************************************)
InitScan ==
    /\ input \in ScanInputs
    /\ valid_symbols \in [TokenType -> BOOLEAN]
    /\ pos = 1
    /\ pc = "comment"
    /\ result_symbol = "NONE"
    /\ ret = "none"
    /\ has_content = FALSE
    /\ buf = << >>
    /\ len = 0
    /\ ExprIdle
    /\ GramIdle
    /\ LexIdle
    /\ SessIdle

\* if (valid_symbols[COMMENT]) { if (lookahead == '/') { advance(lexer); ...
ScanComment ==
    /\ pc = "comment"
    /\ IF valid_symbols[COMMENT] /\ lookahead = SLASH
         THEN pos' = advance /\ pc' = "comment2"
         ELSE pos' = pos /\ pc' = "string"
    /\ UNCHANGED <<input, valid_symbols, result_symbol, ret, has_content, buf, len>>
    /\ UNCHANGED <<exprVars, gramVars, lexVars, sessVars>>

\* if (lookahead == '/') { advance(lexer); ...
ScanComment2 ==
    /\ pc = "comment2"
    /\ IF lookahead = SLASH
         THEN pos' = advance /\ pc' = "comment_loop"
         ELSE pos' = pos /\ pc' = "string"
    /\ UNCHANGED <<input, valid_symbols, result_symbol, ret, has_content, buf, len>>
    /\ UNCHANGED <<exprVars, gramVars, lexVars, sessVars>>

\* A variant of ScanCommentLoop: '\r' does not end the comment.
ScanCommentLoopNoCR ==
    /\ pc = "comment_loop"
    /\ IF lookahead # LF /\ lookahead # NUL
         THEN /\ pos' = advance
              /\ UNCHANGED <<pc, result_symbol, ret>>
         ELSE /\ result_symbol' = COMMENT
              /\ ret' = "true"
              /\ pc' = "done"
              /\ pos' = pos
    /\ UNCHANGED <<input, valid_symbols, has_content, buf, len>>
    /\ UNCHANGED <<exprVars, gramVars, lexVars, sessVars>>

\* while (lookahead != '\n' && lookahead != '\r' && lookahead != 0) advance;
\* result_symbol = COMMENT; return true;
ScanCommentLoop ==
    /\ pc = "comment_loop"
    /\ IF lookahead # LF /\ lookahead # CR /\ lookahead # NUL
         THEN /\ pos' = advance
              /\ UNCHANGED <<pc, result_symbol, ret>>
         ELSE /\ result_symbol' = COMMENT
              /\ ret' = "true"
              /\ pc' = "done"
              /\ pos' = pos
    /\ UNCHANGED <<input, valid_symbols, has_content, buf, len>>
    /\ UNCHANGED <<exprVars, gramVars, lexVars, sessVars>>

\* A variant of ScanString: has_content keeps the value the last call left.
ScanStringKeepContent ==
    /\ pc = "string"
    /\ IF valid_symbols[STRING_CONTENT]
         THEN /\ result_symbol' = STRING_CONTENT
              /\ pc' = "string_loop"
         ELSE /\ pc' = "id"
              /\ UNCHANGED result_symbol
    /\ UNCHANGED <<input, valid_symbols, pos, ret, has_content, buf, len>>
    /\ UNCHANGED <<exprVars, gramVars, lexVars, sessVars>>

\* if (valid_symbols[STRING_CONTENT]) { result_symbol = STRING_CONTENT;
\*                                      bool has_content = false; ...
ScanString ==
    /\ pc = "string"
    /\ IF valid_symbols[STRING_CONTENT]
         THEN /\ result_symbol' = STRING_CONTENT
              /\ has_content' = FALSE
              /\ pc' = "string_loop"
         ELSE /\ pc' = "id"
              /\ UNCHANGED <<result_symbol, has_content>>
    /\ UNCHANGED <<input, valid_symbols, pos, ret, buf, len>>
    /\ UNCHANGED <<exprVars, gramVars, lexVars, sessVars>>

\* A variant of ScanStringLoop: the end of input does not end the loop.
ScanStringLoopNoEof ==
    /\ pc = "string_loop"
    /\ IF lookahead = QUOTE
         THEN /\ ret' = (IF has_content THEN "true" ELSE "false")
              /\ pc' = "done"
              /\ UNCHANGED <<pos, has_content>>
         ELSE IF lookahead = BACKSLASH
         THEN /\ pos' = advance
              /\ pc' = "string_escape"
              /\ UNCHANGED <<ret, has_content>>
         ELSE /\ pos' = advance
              /\ has_content' = TRUE
              /\ UNCHANGED <<pc, ret>>
    /\ UNCHANGED <<input, valid_symbols, result_symbol, buf, len>>
    /\ UNCHANGED <<exprVars, gramVars, lexVars, sessVars>>

\* one turn of while (true): return has_content at '"' or 0; at '\\' advance
\* and go on to the escaped character; else advance, has_content = true
ScanStringLoop ==
    /\ pc = "string_loop"
    /\ IF lookahead = QUOTE \/ lookahead = NUL
         THEN /\ ret' = (IF has_content THEN "true" ELSE "false")
              /\ pc' = "done"
              /\ UNCHANGED <<pos, has_content>>
         ELSE IF lookahead = BACKSLASH
         THEN /\ pos' = advance
              /\ pc' = "string_escape"
              /\ UNCHANGED <<ret, has_content>>
         ELSE /\ pos' = advance
              /\ has_content' = TRUE
              /\ UNCHANGED <<pc, ret>>
    /\ UNCHANGED <<input, valid_symbols, result_symbol, buf, len>>
    /\ UNCHANGED <<exprVars, gramVars, lexVars, sessVars>>

\* A variant of ScanStringEscape: the character after the backslash is left
\* to the next turn of the loop.
ScanStringEscapeKeep ==
    /\ pc = "string_escape"
    /\ pos' = pos
    /\ has_content' = TRUE
    /\ pc' = "string_loop"
    /\ UNCHANGED <<input, valid_symbols, result_symbol, ret, buf, len>>
    /\ UNCHANGED <<exprVars, gramVars, lexVars, sessVars>>

\* if (lookahead != 0) advance(lexer); has_content = true;
ScanStringEscape ==
    /\ pc = "string_escape"
    /\ pos' = (IF lookahead # NUL THEN advance ELSE pos)
    /\ has_content' = TRUE
    /\ pc' = "string_loop"
    /\ UNCHANGED <<input, valid_symbols, result_symbol, ret, buf, len>>
    /\ UNCHANGED <<exprVars, gramVars, lexVars, sessVars>>

\* if (valid_symbols[ID]) { if (iswalpha(lookahead) || lookahead == '_') {
\*     char buf[256]; size_t len = 0; ... } } return false;
ScanId ==
    /\ pc = "id"
    /\ IF valid_symbols[ID] /\ (iswalpha(lookahead) \/ lookahead = "_")
         THEN /\ buf' = << >>
              /\ len' = 0
              /\ pc' = "id_loop"
              /\ ret' = ret
         ELSE /\ ret' = "false"
              /\ pc' = "done"
              /\ UNCHANGED <<buf, len>>
    /\ UNCHANGED <<input, valid_symbols, pos, result_symbol, has_content>>
    /\ UNCHANGED <<exprVars, gramVars, lexVars, sessVars>>

\* A variant of ScanIdLoop: the loop does not test len.
ScanIdLoopNoBound ==
    /\ pc = "id_loop"
    /\ IF iswalnum(lookahead) \/ lookahead = "_"
         THEN /\ buf' = Append(buf, lookahead)
              /\ len' = len + 1
              /\ pos' = advance
              /\ UNCHANGED <<pc, ret, result_symbol>>
         ELSE /\ IF is_keyword(buf, len)
                   THEN ret' = "false" /\ result_symbol' = result_symbol
                   ELSE ret' = "true" /\ result_symbol' = ID
              /\ pc' = "done"
              /\ UNCHANGED <<buf, len, pos>>
    /\ UNCHANGED <<input, valid_symbols, has_content>>
    /\ UNCHANGED <<exprVars, gramVars, lexVars, sessVars>>

\* while ((iswalnum(lookahead) || lookahead == '_') && len < 255) {
\*     buf[len++] = lookahead; advance(lexer); }
\* buf[len] = '\0'; if (is_keyword(buf, len)) return false;
\* result_symbol = ID; return true;
ScanIdLoop ==
    /\ pc = "id_loop"
    /\ IF (iswalnum(lookahead) \/ lookahead = "_") /\ len < IdMax
         THEN /\ buf' = Append(buf, lookahead)
              /\ len' = len + 1
              /\ pos' = advance
              /\ UNCHANGED <<pc, ret, result_symbol>>
         ELSE /\ IF is_keyword(buf, len)
                   THEN ret' = "false" /\ result_symbol' = result_symbol
                   ELSE ret' = "true" /\ result_symbol' = ID
              /\ pc' = "done"
              /\ UNCHANGED <<buf, len, pos>>
    /\ UNCHANGED <<input, valid_symbols, has_content>>
    /\ UNCHANGED <<exprVars, gramVars, lexVars, sessVars>>

NextScan ==
    \/ ScanComment
    \/ ScanComment2
    \/ ScanCommentLoop
    \/ ScanString
    \/ ScanStringLoop
    \/ ScanStringEscape
    \/ ScanId
    \/ ScanIdLoop

SpecScan == InitScan /\ [][NextScan]_vars

\* the scan is one synchronous call: it runs until it returns
FairSpecScan == SpecScan /\ WF_vars(NextScan)

(***************************************************************************)
(* What one scan returned.                                                 *)
(***************************************************************************)
Done == pc = "done"
Emitted(kind) == Done /\ ret = "true" /\ result_symbol = kind
\* the token spans the characters advanced over (mark_end is never called)
TokenLen == pos - 1

IsIdChar(c) == c \in Lower \cup Upper \cup Digit \cup {"_"}
\* an identifier-shaped run starts the input
IdShaped(s) == Len(s) >= 1 /\ s[1] \in Lower \cup Upper \cup {"_"}
\* the length of the longest prefix of s made of letters, digits, underscores
RunLen(s) ==
    CHOOSE n \in 0..Len(s) :
        /\ \A k \in 1..n : IsIdChar(s[k])
        /\ n = Len(s) \/ ~IsIdChar(s[n + 1])
Run(s) == SubSeq(s, 1, RunLen(s))

(***************************************************************************)
(* C2.  As stated: when the identifier kind is requested and the           *)
(* identifier-shaped run at the scan position is exactly a reserved word   *)
(* or one of true, false, null, no identifier token is emitted.            *)
(***************************************************************************)
C2_AsStated ==
    (Done /\ valid_symbols[ID] /\ IdShaped(input)
        /\ Run(input) \in ReservedWords \cup LiteralWords)
    => ~Emitted(ID)

\* C2, amended: when the identifier kind is requested and the run is exactly
\* one of the 27 reserved words, no identifier token is emitted; when the run
\* is exactly true, false or null (and string content is not requested), the
\* scan ends with an identifier token covering the word.
C2_ReservedNeverId ==
    /\ (Done /\ valid_symbols[ID] /\ IdShaped(input) /\ Run(input) \in ReservedWords)
       => ~Emitted(ID)
    /\ (Done /\ valid_symbols[ID] /\ ~valid_symbols[STRING_CONTENT]
          /\ IdShaped(input) /\ Run(input) \in LiteralWords)
       => (Emitted(ID) /\ TokenLen = RunLen(input))

\* a scan of the word `or` (followed by a space) has returned no-match
C2_Witness ==
    /\ Done
    /\ valid_symbols[ID]
    /\ input = W_or \o <<" ">>
    /\ ret = "false"
    /\ len = 2

(***************************************************************************)
(* C3.  As stated: with the identifier kind requested (and string content  *)
(* not), every identifier-shaped run that is not exactly a reserved word   *)
(* is emitted as one identifier token covering the whole run.              *)
(***************************************************************************)
C3_AsStated ==
    (Done /\ valid_symbols[ID] /\ ~valid_symbols[STRING_CONTENT]
        /\ IdShaped(input) /\ Run(input) \notin ReservedWords \cup LiteralWords)
    => (Emitted(ID) /\ TokenLen = RunLen(input))

\* C3, amended: with the identifier kind requested and string content not,
\* every identifier-shaped run of at most 255 characters that is not exactly
\* one of the 27 reserved words is emitted as one identifier token covering
\* the whole run; of a longer run the first 255 characters are emitted.
C3_NonReservedIsId ==
    (Done /\ valid_symbols[ID] /\ ~valid_symbols[STRING_CONTENT]
        /\ IdShaped(input) /\ Run(input) \notin ReservedWords)
    => /\ Emitted(ID)
       /\ RunLen(input) <= IdMax => TokenLen = RunLen(input)
       /\ RunLen(input) > IdMax => TokenLen = IdMax

\* `functionN` was emitted as one identifier token of 9 characters
C3_Witness ==
    /\ Emitted(ID)
    /\ input = W_function \o <<"N">>
    /\ TokenLen = 9

(***************************************************************************)
(* C4.  With string content requested (and comment not), the scan stops    *)
(* immediately before the first quote that no backslash escapes, or at     *)
(* the end of input; it succeeds iff it consumed at least one character.   *)
(***************************************************************************)
\* the number of consecutive backslashes that end at index i of s
BackslashesBefore(s, i) ==
    CHOOSE n \in 0..i :
        /\ \A k \in (i - n + 1)..i : s[k] = BACKSLASH
        /\ n = i \/ s[i - n] # BACKSLASH
\* a quote is unescaped iff an even number of backslashes precedes it
UnescapedQuoteAt(s, i) ==
    /\ s[i] = QUOTE
    /\ BackslashesBefore(s, i - 1) % 2 = 0
\* where the content ends: before the first unescaped quote, else at the end
ContentLen(s) ==
    IF \E i \in 1..Len(s) : UnescapedQuoteAt(s, i)
      THEN (CHOOSE i \in 1..Len(s) :
               /\ UnescapedQuoteAt(s, i)
               /\ \A j \in 1..(i - 1) : ~UnescapedQuoteAt(s, j)) - 1
      ELSE Len(s)

StartsComment(s) == Len(s) >= 2 /\ s[1] = SLASH /\ s[2] = SLASH
\* the number of characters before the first line terminator
LineLen(s) ==
    CHOOSE n \in 0..Len(s) :
        /\ \A k \in 1..n : s[k] \notin {LF, CR}
        /\ n = Len(s) \/ s[n + 1] \in {LF, CR}

C5_Comment ==
    /\ (Done /\ valid_symbols[COMMENT] /\ StartsComment(input))
       => (Emitted(COMMENT) /\ TokenLen = LineLen(input))
    /\ Emitted(COMMENT) => (valid_symbols[COMMENT] /\ StartsComment(input))

\* the comment `//i` ended before a carriage return
C5_Witness ==
    /\ Emitted(COMMENT)
    /\ input = <<SLASH, SLASH, "i", CR>>
    /\ TokenLen = 3

(***************************************************************************)
(* C6.  For every input and every combination of flags, the scan returns   *)
(* after finitely many advances, with a token or with no-match.            *)
(***************************************************************************)
C6_ScanTerminates ==
    <>(Done /\ ret \in {"true", "false"} /\ TokenLen <= Len(input))

\* an unterminated string ending in a backslash was scanned to the end
C6_Witness ==
    /\ Done
    /\ valid_symbols[STRING_CONTENT]
    /\ input = <<"i", "f", BACKSLASH>>
    /\ ret = "true"
    /\ TokenLen = 3

(***************************************************************************)
(* The expression grammar of the three drafts.                             *)
(***************************************************************************)
Drafts == {1, 2, 3}

\* A variant of PREC: `and` and `or` in the conventional order.
PREC_AndAboveOr(d) ==
    [ASSIGNMENT |-> 1, LOGICAL_AND |-> 13, LOGICAL_OR |-> 12, EQUALITY |-> 14,
     RELATIONAL |-> 15, ADDITIVE |-> 16, MULTIPLICATIVE |-> 17, UNARY |-> 18,
     POSTFIX |-> 19, SUBSCRIPT |-> 20, STATEMENT |-> 15, BLOCK |-> 20]

\* A variant of PREC: the prefix operators bind looser than the binary ones.
PREC_UnaryLow(d) ==
    [ASSIGNMENT |-> 1, LOGICAL_AND |-> 12, LOGICAL_OR |-> 13, EQUALITY |-> 14,
     RELATIONAL |-> 15, ADDITIVE |-> 16, MULTIPLICATIVE |-> 17, UNARY |-> 8,
     POSTFIX |-> 19, SUBSCRIPT |-> 20, STATEMENT |-> 15, BLOCK |-> 20]

\* const PREC = {...} of draft d (higher = tighter binding)
PREC(d) ==
    IF d = 2
      THEN [ASSIGNMENT |-> 1, LOGICAL_AND |-> 12, LOGICAL_OR |-> 13,
            EQUALITY |-> 14, RELATIONAL |-> 15, ADDITIVE |-> 16,
            MULTIPLICATIVE |-> 17, UNARY |-> 18, POSTFIX |-> 19,
            SUBSCRIPT |-> 20, STATEMENT |-> 15, BLOCK |-> 20]
      ELSE [ASSIGNMENT |-> 1, LOGICAL_AND |-> 12, LOGICAL_OR |-> 13,
            EQUALITY |-> 14, RELATIONAL |-> 15, ADDITIVE |-> 16,
            MULTIPLICATIVE |-> 17, UNARY |-> 18, POSTFIX |-> 19,
            SUBSCRIPT |-> 20]

\* A variant of prec_left: the alternative is marked right-associative.
prec_left_as_right(p, f, o) == [form |-> f, op |-> o, prec |-> p, assoc |-> "right"]

\* prec.left(p, seq(...)) and prec.right(p, seq(...)): an alternative of expr,
\* its shape (f), its operator token (o), its precedence and associativity
prec_left(p, f, o) == [form |-> f, op |-> o, prec |-> p, assoc |-> "left"]
prec_right(p, f, o) == [form |-> f, op |-> o, prec |-> p, assoc |-> "right"]
\* an alternative of expr that is a single symbol
atom(o) == [form |-> "atom", op |-> o, prec |-> 0, assoc |-> "none"]

\* expr: $ => choice(...), in the order of the draft
ExprAlts(d) ==
    LET P == PREC(d)
        literals == << atom("number"), atom("float"), atom("string"), atom("id"),
                       atom("function_call") >>
        assignment == << prec_right(P.ASSIGNMENT, "binary", "=") >>
        operators ==
            << prec_left(P.SUBSCRIPT, "subscript", "["),
               prec_left(P.POSTFIX, "postfix", "++"),
               prec_left(P.POSTFIX, "postfix", "--"),
               prec_right(P.UNARY, "prefix", "++"),
               prec_right(P.UNARY, "prefix", "--"),
               prec_right(P.UNARY, "prefix", "not"),
               prec_right(P.UNARY, "prefix", "-"),
               prec_right(P.UNARY, "prefix", "+"),
               prec_left(P.MULTIPLICATIVE, "binary", "*"),
               prec_left(P.MULTIPLICATIVE, "binary", "/"),
               prec_left(P.ADDITIVE, "binary", "+"),
               prec_left(P.ADDITIVE, "binary", "-"),
               prec_left(P.RELATIONAL, "binary", "<"),
               prec_left(P.RELATIONAL, "binary", ">"),
               prec_left(P.RELATIONAL, "binary", "<="),
               prec_left(P.RELATIONAL, "binary", ">="),
               prec_left(P.EQUALITY, "binary", "=="),
               prec_left(P.EQUALITY, "binary", "!="),
               prec_left(P.LOGICAL_AND, "binary", "and"),
               prec_left(P.LOGICAL_OR, "binary", "or") >>
    IN  IF d = 1 THEN literals \o operators \o assignment
                 ELSE literals \o assignment \o operators

\* the alternatives of each draft, and their operator tokens by shape
AltSets == [d \in Drafts |-> {ExprAlts(d)[k] : k \in 1..Len(ExprAlts(d))}]
OpSets ==
    [d \in Drafts |->
        [f \in {"binary", "prefix", "postfix"} |->
            {a.op : a \in {b \in AltSets[d] : b.form = f}}]]
AltSet(d) == AltSets[d]
AltOf(d, f, o) == CHOOSE a \in AltSets[d] : a.form = f /\ a.op = o
OpsOf(d, f) == OpSets[d][f]

\* the token of an identifier
IdTok == "x"

(***************************************************************************)
(* The parse of one expression: a stack of tokens and expr nodes; a        *)
(* shift/reduce conflict is settled by the precedence and associativity    *)
(* of the alternatives, as the parser generator settles it.                *)
(***************************************************************************)
Tok(t, i) == [form |-> "tok", op |-> t, kids |-> << >>, at |-> i]
Node(f, o, ks, i) == [form |-> f, op |-> o, kids |-> ks, at |-> i]
IsExpr(it) == it.form # "tok"
IsTok(it, ops) == it.form = "tok" /\ it.op \in ops

EOI == "end"
LookaheadTok == IF tpos <= Len(toks) THEN toks[tpos] ELSE EOI

\* the alternative of expr that is complete on top of the stack
Handle(d, st) ==
    LET n == Len(st) IN
    IF n = 0 THEN "none"
    ELSE IF ~IsExpr(st[n])
      THEN IF st[n].op = IdTok THEN "atom"
           ELSE IF n >= 2 /\ st[n].op \in OpsOf(d, "postfix") /\ IsExpr(st[n - 1])
             THEN "postfix"
           ELSE IF n >= 4 /\ st[n].op = "]" /\ IsExpr(st[n - 1])
                   /\ IsTok(st[n - 2], {"["}) /\ IsExpr(st[n - 3])
             THEN "subscript"
           ELSE "none"
      ELSE IF n >= 3 /\ IsTok(st[n - 1], OpsOf(d, "binary")) /\ IsExpr(st[n - 2])
             THEN "binary"
           ELSE IF n >= 2 /\ IsTok(st[n - 1], OpsOf(d, "prefix"))
                   /\ (n = 2 \/ ~IsExpr(st[n - 2]))
             THEN "prefix"
           ELSE "none"

\* the alternative whose item expr . t ... goes on with token t after an expr
ShiftAlt(d, t) ==
    IF t = "[" THEN AltOf(d, "subscript", "[")
    ELSE IF t \in OpsOf(d, "postfix") THEN AltOf(d, "postfix", t)
    ELSE AltOf(d, "binary", t)

\* a shift/reduce conflict between the complete alternative r and the
\* alternative s that the lookahead continues: the higher precedence wins,
\* and at equal precedence a left-associative r reduces, a right-associative
\* r shifts
Resolve(r, s) ==
    IF r.prec > s.prec THEN "reduce"
    ELSE IF r.prec < s.prec THEN "shift"
    ELSE IF r.assoc = "left" THEN "reduce"
    ELSE "shift"

\* an open bracket waits for its index expression
OpenBracket(st) ==
    \E k \in 1..Len(st) :
        /\ IsTok(st[k], {"["})
        /\ \A j \in (k + 1)..Len(st) : ~IsTok(st[j], {"]"})

\* what the parser does with stack st and lookahead t
Decide(d, st, t) ==
    LET n == Len(st)
        h == Handle(d, st)
        continues == t \in OpsOf(d, "binary") \cup OpsOf(d, "postfix") \cup {"["}
    IN
    IF h \in {"atom", "postfix", "subscript"} THEN "reduce"
    ELSE IF h \in {"binary", "prefix"}
      THEN IF continues
             THEN Resolve(AltOf(d, h, st[n - 1].op), ShiftAlt(d, t))
           ELSE IF t = EOI \/ (t = "]" /\ OpenBracket(st)) THEN "reduce"
           ELSE "error"
    ELSE IF n >= 1 /\ IsExpr(st[n])
      THEN IF continues THEN "shift"
           ELSE IF t = "]" /\ n >= 2 /\ IsTok(st[n - 1], {"["}) THEN "shift"
           ELSE IF t = EOI /\ n = 1 THEN "accept"
           ELSE "error"
    ELSE IF t = IdTok \/ t \in OpsOf(d, "prefix") THEN "shift"
    ELSE "error"

\* the stack after the reduction of its handle
Reduced(d, st) ==
    LET n == Len(st)
        h == Handle(d, st)
    IN
    CASE h = "atom" ->
           SubSeq(st, 1, n - 1) \o << Node("atom", "id", << >>, st[n].at) >>
      [] h = "postfix" ->
           SubSeq(st, 1, n - 2)
             \o << Node("postfix", st[n].op, << st[n - 1] >>, st[n].at) >>
      [] h = "subscript" ->
           SubSeq(st, 1, n - 4)
             \o << Node("subscript", "[", << st[n - 3], st[n - 1] >>, st[n - 2].at) >>
      [] h = "binary" ->
           SubSeq(st, 1, n - 3)
             \o << Node("binary", st[n - 1].op, << st[n - 2], st[n] >>, st[n - 1].at) >>
      [] h = "prefix" ->
           SubSeq(st, 1, n - 2)
             \o << Node("prefix", st[n - 1].op, << st[n] >>, st[n - 1].at) >>

(***************************************************************************)
(* The expressions parsed: every token sequence that expr derives with at  *)
(* most MaxOps operators over one identifier, and some that it does not    *)
(* derive.                                                                 *)
(***************************************************************************)
MaxOps == 2

RECURSIVE ExprStrings(_)
\* the token sequences of expr with exactly k operators
ExprStrings(k) ==
    IF k = 0 THEN {<< IdTok >>}
    ELSE LET d == 3
             split == {ij \in (0..(k - 1)) \X (0..(k - 1)) : ij[1] + ij[2] = k - 1}
         IN  {<< o >> \o e : o \in OpsOf(d, "prefix"), e \in ExprStrings(k - 1)}
             \cup {e \o << o >> : o \in OpsOf(d, "postfix"), e \in ExprStrings(k - 1)}
             \cup UNION {{l \o << o >> \o r : o \in OpsOf(d, "binary"),
                                            l \in ExprStrings(ij[1]),
                                            r \in ExprStrings(ij[2])} : ij \in split}
             \cup UNION {{l \o << "[" >> \o r \o << "]" >> :
                                            l \in ExprStrings(ij[1]),
                                            r \in ExprStrings(ij[2])} : ij \in split}

Malformed ==
    {<< >>, << IdTok, IdTok >>, << IdTok, "+" >>, << IdTok, "]" >>, << "not" >>,
     << IdTok, "[", IdTok >>, << IdTok, "not", IdTok >>, << "*", IdTok >>}

ExprInputs == UNION {ExprStrings(k) : k \in 0..MaxOps} \cup Malformed

InitExpr ==
    /\ draft \in Drafts
    /\ toks \in ExprInputs
    /\ tpos = 1
    /\ stack = << >>
    /\ status = "parsing"
    /\ ScanIdle
    /\ GramIdle
    /\ LexIdle
    /\ SessIdle

ExprShift ==
    /\ status = "parsing"
    /\ Decide(draft, stack, LookaheadTok) = "shift"
    /\ stack' = Append(stack, Tok(LookaheadTok, tpos))
    /\ tpos' = tpos + 1
    /\ UNCHANGED <<draft, toks, status>>
    /\ UNCHANGED <<scanVars, gramVars, lexVars, sessVars>>

ExprReduce ==
    /\ status = "parsing"
    /\ Decide(draft, stack, LookaheadTok) = "reduce"
    /\ stack' = Reduced(draft, stack)
    /\ UNCHANGED <<draft, toks, tpos, status>>
    /\ UNCHANGED <<scanVars, gramVars, lexVars, sessVars>>

ExprAccept ==
    /\ status = "parsing"
    /\ Decide(draft, stack, LookaheadTok) = "accept"
    /\ status' = "accept"
    /\ UNCHANGED <<draft, toks, tpos, stack>>
    /\ UNCHANGED <<scanVars, gramVars, lexVars, sessVars>>

ExprError ==
    /\ status = "parsing"
    /\ Decide(draft, stack, LookaheadTok) = "error"
    /\ status' = "error"
    /\ UNCHANGED <<draft, toks, tpos, stack>>
    /\ UNCHANGED <<scanVars, gramVars, lexVars, sessVars>>

NextExpr ==
    \/ ExprShift
    \/ ExprReduce
    \/ ExprAccept
    \/ ExprError

SpecExpr == InitExpr /\ [][NextExpr]_vars

(***************************************************************************)
(* The tree of an accepted expression.                                     *)
(***************************************************************************)
Accepted == status = "accept"
Tree == stack[1]

RECURSIVE Nodes(_)
\* a node and all nodes below it
Nodes(n) == {n} \cup UNION {Nodes(n.kids[k]) : k \in 1..Len(n.kids)}

\* the operands of a node that no bracket delimits (not the index of a
\* subscript)
OperandKids(n) ==
    IF n.form = "subscript" THEN {n.kids[1]} ELSE {n.kids[k] : k \in 1..Len(n.kids)}

RECURSIVE Under(_)
\* the nodes reached from n through such operands
Under(n) == UNION {{c} \cup Under(c) : c \in OperandKids(n)}

IsOp(n) == n.form # "atom"
Level(d, n) == AltOf(d, n.form, n.op).prec
IsBin(n, o) == n.form = "binary" /\ n.op = o

(***************************************************************************)
(* C1.  In every draft `or` binds tighter than `and`: `A and B or C` is    *)
(* an `and` node whose right operand is the `or` node, `A or B and C` is   *)
(* an `and` node whose left operand is the `or` node, and no `or` node     *)
(* has an `and` node as an operand.                                        *)
(***************************************************************************)
C1_OrTighterThanAnd ==
    Accepted =>
        /\ \A n \in Nodes(Tree) :
              IsBin(n, "or") => (~IsBin(n.kids[1], "and") /\ ~IsBin(n.kids[2], "and"))
        /\ toks = << IdTok, "and", IdTok, "or", IdTok >>
              => (IsBin(Tree, "and") /\ Tree.kids[1].form = "atom"
                    /\ IsBin(Tree.kids[2], "or"))
        /\ toks = << IdTok, "or", IdTok, "and", IdTok >>
              => (IsBin(Tree, "and") /\ IsBin(Tree.kids[1], "or")
                    /\ Tree.kids[2].form = "atom")

\* `x and x or x` was parsed under draft 2, the `or` node below the `and`
C1_Witness ==
    /\ Accepted
    /\ draft = 2
    /\ toks = << IdTok, "and", IdTok, "or", IdTok >>
    /\ IsBin(Tree, "and")
    /\ IsBin(Tree.kids[2], "or")

(***************************************************************************)
(* C9.  The levels are strictly ordered, loosest to tightest: assignment,  *)
(* and, or, equality, relational, additive, multiplicative, prefix,        *)
(* postfix, subscript.                                                     *)
(***************************************************************************)
StrictLevels(d) ==
    LET P == PREC(d) IN
    /\ P.ASSIGNMENT < P.LOGICAL_AND
    /\ P.LOGICAL_AND < P.LOGICAL_OR
    /\ P.LOGICAL_OR < P.EQUALITY
    /\ P.EQUALITY < P.RELATIONAL
    /\ P.RELATIONAL < P.ADDITIVE
    /\ P.ADDITIVE < P.MULTIPLICATIVE
    /\ P.MULTIPLICATIVE < P.UNARY
    /\ P.UNARY < P.POSTFIX
    /\ P.POSTFIX < P.SUBSCRIPT

\* the examples of the claim
C9_Examples ==
    /\ toks = << "-", IdTok, "*", IdTok >>
          => (IsBin(Tree, "*") /\ Tree.kids[1].form = "prefix")
    /\ toks = << "not", IdTok, "==", IdTok >>
          => (IsBin(Tree, "==") /\ Tree.kids[1].form = "prefix")
    /\ toks = << "-", IdTok, "++" >>
          => (Tree.form = "prefix" /\ Tree.kids[1].form = "postfix")
    /\ toks = << IdTok, "+", IdTok, "[", IdTok, "]" >>
          => (IsBin(Tree, "+") /\ Tree.kids[2].form = "subscript")

\* C9 as stated: of any two operators of different levels in one expression,
\* one an operand (at any depth, outside brackets) of the other, the one of
\* the tighter level is the deeper node.
C9_AsStated ==
    Accepted =>
        /\ StrictLevels(draft)
        /\ C9_Examples
        /\ \A n \in {m \in Nodes(Tree) : IsOp(m)} :
              \A c \in {m \in Under(n) : IsOp(m)} :
                 Level(draft, c) # Level(draft, n) => Level(draft, c) > Level(draft, n)

\* C9, amended: the levels are strictly ordered as listed, and of two
\* operators of different levels, one an operand (outside brackets) of the
\* other, the tighter is the deeper node, except that postfix and subscript
\* operators apply in the order written: in `a++[i]` the subscript node is
\* the parent of the postfix node.
C9_TighterDeeper ==
    Accepted =>
        /\ StrictLevels(draft)
        /\ C9_Examples
        /\ \A n \in {m \in Nodes(Tree) : IsOp(m)} :
              \A c \in {m \in Under(n) : IsOp(m)} :
                 Level(draft, c) # Level(draft, n)
                    => \/ Level(draft, c) > Level(draft, n)
                       \/ (n.form = "subscript" /\ c.form = "postfix")
        /\ toks = << IdTok, "++", "[", IdTok, "]" >>
              => (Tree.form = "subscript" /\ Tree.kids[1].form = "postfix")

\* `-x * x` was parsed as (-x) * x
C9_Witness ==
    /\ Accepted
    /\ toks = << "-", IdTok, "*", IdTok >>
    /\ IsBin(Tree, "*")
    /\ Tree.kids[1].form = "prefix"

(***************************************************************************)
(* C10.  Assignment is right-associative, every other binary operator is   *)
(* left-associative, and the operators of one level share one              *)
(* associativity.                                                          *)
(***************************************************************************)
C10_Associativity ==
    Accepted =>
        /\ \A a, b \in {c \in AltSet(draft) : c.form # "atom"} :
              a.prec = b.prec => a.assoc = b.assoc
        /\ \A a \in {c \in AltSet(draft) : c.form = "binary"} :
              a.assoc = (IF a.op = "=" THEN "right" ELSE "left")
        /\ \A n \in {m \in Nodes(Tree) : m.form = "binary"} :
              LET same(k) == /\ n.kids[k].form = "binary"
                             /\ Level(draft, n.kids[k]) = Level(draft, n)
              IN  IF n.op = "=" THEN ~same(1) ELSE ~same(2)
        /\ toks = << IdTok, "=", IdTok, "=", IdTok >>
              => (IsBin(Tree, "=") /\ IsBin(Tree.kids[2], "="))
        /\ toks = << IdTok, "-", IdTok, "-", IdTok >>
              => (IsBin(Tree, "-") /\ IsBin(Tree.kids[1], "-"))
        /\ toks = << IdTok, "==", IdTok, "!=", IdTok >>
              => (IsBin(Tree, "!=") /\ IsBin(Tree.kids[1], "=="))

\* `x == x != x` was parsed as (x == x) != x
C10_Witness ==
    /\ Accepted
    /\ toks = << IdTok, "==", IdTok, "!=", IdTok >>
    /\ IsBin(Tree, "!=")
    /\ IsBin(Tree.kids[1], "==")

(***************************************************************************)
(* The productions of the three drafts.  A rule body is built from         *)
(* lit (a keyword or punctuation string), sym ($.name), seq, choice,       *)
(* optional, repeat, repeat1, field and prec, as in grammar.js.            *)
(***************************************************************************)
lit(s) == [t |-> "lit", s |-> s, p |-> 0, a |-> << >>]
sym(s) == [t |-> "sym", s |-> s, p |-> 0, a |-> << >>]
seq(a) == [t |-> "seq", s |-> "", p |-> 0, a |-> a]
choice(a) == [t |-> "choice", s |-> "", p |-> 0, a |-> a]
optional(e) == [t |-> "optional", s |-> "", p |-> 0, a |-> << e >>]
repeat(e) == [t |-> "repeat", s |-> "", p |-> 0, a |-> << e >>]
repeat1(e) == [t |-> "repeat1", s |-> "", p |-> 0, a |-> << e >>]
field(n, e) == [t |-> "field", s |-> n, p |-> 0, a |-> << e >>]
\* prec.right(p, e) on a rule
rule_prec_right(p, e) == [t |-> "prec", s |-> "right", p |-> p, a |-> << e >>]

program(d) ==
    IF d = 1 THEN repeat(sym("_block")) ELSE repeat(sym("_statement"))

\* _block of drafts 1 and 3
block_ ==
    choice(<< sym("globals"), sym("function_statement"), sym("native_statement"),
              sym("type_statement") >>)

\* _statement
statement_(d) ==
    IF d = 1
      THEN choice(<< sym("if_statement"), sym("loop_statement"),
                     sym("return_statement"), sym("exitwhen_statement"),
                     sym("local_statement"), sym("expr") >>)
      ELSE LET alts == choice(<< sym("globals"), sym("function_statement"),
                                 sym("native_statement"), sym("type_statement"),
                                 sym("if_statement"), sym("loop_statement"),
                                 sym("return_statement"), sym("exitwhen_statement"),
                                 sym("local_statement"), sym("var_stmt"),
                                 sym("set_statement"), sym("call_statement"),
                                 sym("expr") >>)
           IN  IF d = 2 THEN rule_prec_right(PREC(2).STATEMENT, alts) ELSE alts

\* _loop_statement of draft 3
loop_statement_ ==
    choice(<< sym("_block"), sym("if_statement"), sym("loop_statement"),
              sym("return_statement"), sym("exitwhen_statement"),
              sym("local_statement"), sym("set_statement"), sym("call_statement"),
              sym("expr") >>)

\* _globals_statement of draft 3
globals_statement_ == choice(<< sym("var_stmt"), sym("_loop_statement") >>)

\* A variant of loop_statement: the closing keyword is optional in every draft.
loop_statement_optional_end(d) ==
    seq(<< lit("loop"), repeat(sym("_statement")), optional(lit("endloop")) >>)

loop_statement(d) ==
    IF d = 1
      THEN seq(<< lit("loop"), repeat(sym("_statement")), optional(lit("endloop")) >>)
    ELSE IF d = 2
      THEN rule_prec_right(PREC(2).BLOCK,
               seq(<< lit("loop"), optional(repeat1(sym("_statement"))),
                      lit("endloop") >>))
    ELSE seq(<< lit("loop"), repeat(sym("_loop_statement")), lit("endloop") >>)

\* A variant of globals: the body holds variable declarations only, in every
\* draft.
globals_declarations_only(d) ==
    IF d = 1
      THEN seq(<< lit("globals"), repeat(sym("var_stmt")), optional(lit("endglobals")) >>)
      ELSE seq(<< lit("globals"), repeat(sym("var_stmt")), lit("endglobals") >>)

globals(d) ==
    IF d = 1
      THEN seq(<< lit("globals"), repeat(sym("var_stmt")), optional(lit("endglobals")) >>)
    ELSE IF d = 2
      THEN rule_prec_right(PREC(2).BLOCK,
               seq(<< lit("globals"), optional(repeat1(sym("_statement"))),
                      lit("endglobals") >>))
    ELSE seq(<< lit("globals"), repeat(sym("_globals_statement")), lit("endglobals") >>)

\* A variant of var_stmt: each declarator is under the field declarator.
var_stmt_declarator_field ==
    seq(<< optional(lit("constant")), field("type", sym("id")), optional(lit("array")),
           field("declarator", sym("var_decl")),
           repeat(seq(<< lit(","), field("declarator", sym("var_decl")) >>)) >>)

var_stmt ==
    seq(<< optional(lit("constant")), field("type", sym("id")), optional(lit("array")),
           sym("var_decl"), repeat(seq(<< lit(","), sym("var_decl") >>)) >>)

var_decl ==
    seq(<< field("name", sym("id")),
           optional(seq(<< lit("="), field("value", sym("expr")) >>)) >>)

\* A variant of AltBody: an identifier may also be a parenthesised expression.
AltBodyGrouped(alt) ==
    CASE alt.form = "atom" ->
           IF alt.op = "id"
             THEN choice(<< sym("id"), seq(<< lit("("), sym("expr"), lit(")") >>) >>)
             ELSE sym(alt.op)
      [] alt.form = "subscript" ->
           [t |-> "prec", s |-> alt.assoc, p |-> alt.prec,
            a |-> << seq(<< sym("expr"), lit("["), sym("expr"), lit("]") >>) >>]
      [] alt.form = "postfix" ->
           [t |-> "prec", s |-> alt.assoc, p |-> alt.prec,
            a |-> << seq(<< sym("expr"), lit(alt.op) >>) >>]
      [] alt.form = "prefix" ->
           [t |-> "prec", s |-> alt.assoc, p |-> alt.prec,
            a |-> << seq(<< lit(alt.op), sym("expr") >>) >>]
      [] alt.form = "binary" ->
           [t |-> "prec", s |-> alt.assoc, p |-> alt.prec,
            a |-> << seq(<< sym("expr"), lit(alt.op), sym("expr") >>) >>]

\* the body of one alternative of expr
AltBody(alt) ==
    CASE alt.form = "atom" -> sym(alt.op)
      [] alt.form = "subscript" ->
           [t |-> "prec", s |-> alt.assoc, p |-> alt.prec,
            a |-> << seq(<< sym("expr"), lit("["), sym("expr"), lit("]") >>) >>]
      [] alt.form = "postfix" ->
           [t |-> "prec", s |-> alt.assoc, p |-> alt.prec,
            a |-> << seq(<< sym("expr"), lit(alt.op) >>) >>]
      [] alt.form = "prefix" ->
           [t |-> "prec", s |-> alt.assoc, p |-> alt.prec,
            a |-> << seq(<< lit(alt.op), sym("expr") >>) >>]
      [] alt.form = "binary" ->
           [t |-> "prec", s |-> alt.assoc, p |-> alt.prec,
            a |-> << seq(<< sym("expr"), lit(alt.op), sym("expr") >>) >>]

expr(d) == choice([k \in 1..Len(ExprAlts(d)) |-> AltBody(ExprAlts(d)[k])])

\* string of draft 2 (a token in drafts 1 and 3)
string ==
    seq(<< lit(QUOTE), optional(sym("_string_content")), lit(QUOTE) >>)

id_list_ == seq(<< sym("id"), repeat(seq(<< lit(","), sym("id") >>)) >>)

return_statement ==
    rule_prec_right(0, seq(<< lit("return"), optional(sym("expr")) >>))

exitwhen_statement == seq(<< lit("exitwhen"), sym("expr") >>)

local_statement ==
    seq(<< lit("local"), optional(lit("constant")), field("type", sym("id")),
           optional(lit("array")), field("name", sym("id")),
           optional(seq(<< lit("="), field("value", sym("expr")) >>)) >>)

\* A variant of set_statement: the fields index and value are exchanged.
set_statement_fields_exchanged ==
    seq(<< lit("set"), field("variable", sym("id")),
           optional(seq(<< lit("["), field("value", sym("expr")), lit("]") >>)),
           lit("="), field("index", sym("expr")) >>)

set_statement ==
    seq(<< lit("set"), field("variable", sym("id")),
           optional(seq(<< lit("["), field("index", sym("expr")), lit("]") >>)),
           lit("="), field("value", sym("expr")) >>)

call_statement == seq(<< lit("call"), sym("function_call") >>)

\* A variant of if_statement: the closing keyword is optional in every draft.
if_statement_optional_end(d) ==
    seq(<< lit("if"), optional(field("condition", sym("expr"))), lit("then"),
           repeat(sym("_statement")),
           repeat(seq(<< lit("elseif"), optional(field("condition", sym("expr"))),
                         lit("then"), repeat(sym("_statement")) >>)),
           optional(seq(<< lit("else"), repeat(sym("_statement")) >>)),
           optional(lit("endif")) >>)

if_statement(d) ==
    LET body == IF d = 2 THEN optional(repeat1(sym("_statement")))
                         ELSE repeat(sym("_statement"))
        close == IF d = 1 THEN optional(lit("endif")) ELSE lit("endif")
    IN  seq(<< lit("if"), optional(field("condition", sym("expr"))), lit("then"),
               body,
               repeat(seq(<< lit("elseif"), optional(field("condition", sym("expr"))),
                             lit("then"), body >>)),
               optional(seq(<< lit("else"), body >>)),
               close >>)

native_statement ==
    seq(<< lit("native"), field("name", sym("id")), lit("takes"),
           field("parameters", choice(<< lit("nothing"), sym("parameter_list") >>)),
           lit("returns"),
           field("return_type", choice(<< lit("nothing"), sym("id") >>)) >>)

type_statement ==
    seq(<< lit("type"), field("name", sym("id")), lit("extends"),
           field("base", sym("id")) >>)

\* A variant of function_statement: the closing keyword is optional in every
\* draft.
function_statement_optional_end(d) ==
    seq(<< lit("function"), field("name", sym("id")), lit("takes"),
           field("parameters", choice(<< lit("nothing"), sym("parameter_list") >>)),
           lit("returns"),
           field("return_type", choice(<< lit("nothing"), sym("id") >>)),
           repeat(sym("_statement")),
           optional(lit("endfunction")) >>)

function_statement(d) ==
    LET header == << lit("function"), field("name", sym("id")), lit("takes"),
                     field("parameters",
                           choice(<< lit("nothing"), sym("parameter_list") >>)),
                     lit("returns"),
                     field("return_type", choice(<< lit("nothing"), sym("id") >>)) >>
    IN  IF d = 1
          THEN seq(header \o << repeat(sym("_statement")),
                                optional(lit("endfunction")) >>)
        ELSE IF d = 2
          THEN rule_prec_right(PREC(2).BLOCK,
                   seq(header \o << optional(repeat1(sym("_statement"))),
                                    lit("endfunction") >>))
        ELSE seq(header \o << repeat(sym("_statement")), lit("endfunction") >>)

parameter_list ==
    seq(<< sym("parameter"), repeat(seq(<< lit(","), sym("parameter") >>)) >>)

parameter == seq(<< field("type", sym("id")), field("name", sym("id")) >>)

function_call ==
    seq(<< field("name", sym("id")), lit("("),
           field("args", optional(sym("function_arguments"))), lit(")") >>)

\* A variant of function_arguments: the first argument is optional.
function_arguments_first_optional ==
    seq(<< optional(sym("expr")), repeat(seq(<< lit(","), sym("expr") >>)) >>)

function_arguments ==
    seq(<< sym("expr"), repeat(seq(<< lit(","), sym("expr") >>)) >>)

\* the rules of draft d that are not single tokens
RuleNames(d) ==
    {"program", "_statement", "loop_statement", "globals", "var_stmt", "var_decl",
     "expr", "_id_list", "return_statement", "exitwhen_statement",
     "local_statement", "if_statement", "native_statement", "type_statement",
     "function_statement", "parameter_list", "parameter", "function_call",
     "function_arguments"}
    \cup (IF d = 1 THEN {"_block"} ELSE {"set_statement", "call_statement"})
    \cup (IF d = 2 THEN {"string"} ELSE {})
    \cup (IF d = 3 THEN {"_block", "_loop_statement", "_globals_statement"} ELSE {})

\* the symbols of draft d that are single tokens: the token(...) rules, the
\* regular expression id, and the externals of draft 2
TokenRules(d) ==
    IF d = 2 THEN {"id", "_string_content", "number", "float"}
             ELSE {"id", "number", "float", "string"}

\* rules whose name starts with an underscore give no node of their own
Hidden == {"_block", "_statement", "_loop_statement", "_globals_statement",
           "_id_list", "_string_content"}

RuleBody(d, name) ==
    CASE name = "program" -> program(d)
      [] name = "_block" -> block_
      [] name = "_statement" -> statement_(d)
      [] name = "_loop_statement" -> loop_statement_
      [] name = "_globals_statement" -> globals_statement_
      [] name = "loop_statement" -> loop_statement(d)
      [] name = "globals" -> globals(d)
      [] name = "var_stmt" -> var_stmt
      [] name = "var_decl" -> var_decl
      [] name = "expr" -> expr(d)
      [] name = "string" -> string
      [] name = "_id_list" -> id_list_
      [] name = "return_statement" -> return_statement
      [] name = "exitwhen_statement" -> exitwhen_statement
      [] name = "local_statement" -> local_statement
      [] name = "set_statement" -> set_statement
      [] name = "call_statement" -> call_statement
      [] name = "if_statement" -> if_statement(d)
      [] name = "native_statement" -> native_statement
      [] name = "type_statement" -> type_statement
      [] name = "function_statement" -> function_statement(d)
      [] name = "parameter_list" -> parameter_list
      [] name = "parameter" -> parameter
      [] name = "function_call" -> function_call
      [] name = "function_arguments" -> function_arguments

\* rules: {...} of each draft
Rules == [d \in Drafts |-> [name \in RuleNames(d) |-> RuleBody(d, name)]]

(***************************************************************************)
(* Derivations.  gform holds what is still to be derived; the first item   *)
(* is rewritten by the rule body it names until it is a token.  A visible  *)
(* rule opens a node, which is finished when its body is used up; each     *)
(* node records its direct children: tokens, nodes and missing tokens,     *)
(* with the field each is under.                                           *)
(***************************************************************************)
MaxTokens == 8
MaxNodes == 2
MaxExprDepth == 1

Item(e, f) == [e |-> e, f |-> f]
CloseOf(name) == [t |-> "close", s |-> name, p |-> 0, a |-> << >>]
Child(kind, name, f) == [kind |-> kind, name |-> name, field |-> f]

Running == gstatus = "running" /\ gform # << >>
Top == gform[1]
Rest == Tail(gform)

\* the number of nodes, finished and under construction
NodeCount == Len(gtree) + Len(gopen)

\* the number of expr nodes under construction
ExprDepth == Cardinality({k \in 1..Len(gopen) : gopen[k].rule = "expr"})

\* the innermost node under construction with one more child
WithChild(c) ==
    [gopen EXCEPT ![Len(gopen)].kids = Append(gopen[Len(gopen)].kids, c)]

\* the closing keywords of the blocks
Terminator(rule) ==
    CASE rule = "globals" -> "endglobals"
      [] rule = "function_statement" -> "endfunction"
      [] rule = "loop_statement" -> "endloop"
      [] rule = "if_statement" -> "endif"
BlockRules == {"globals", "function_statement", "loop_statement", "if_statement"}
Terminators == {Terminator(r) : r \in BlockRules}

\* the token a token item stands for
IsTokenItem(e) ==
    \/ e.t = "lit"
    \/ (e.t = "sym" /\ e.s \in TokenRules(gdraft))

\* seq(...): its members, in order
GSeq ==
    /\ Running
    /\ Top.e.t = "seq"
    /\ gform' = [k \in 1..Len(Top.e.a) |-> Item(Top.e.a[k], Top.f)] \o Rest
    /\ UNCHANGED <<gdraft, gmode, gopen, gtree, gcount, gin, gdiags, gstatus>>
    /\ UNCHANGED <<scanVars, exprVars, lexVars, sessVars>>

\* choice(...): one of its members
GChoice ==
    /\ Running
    /\ Top.e.t = "choice"
    /\ \E k \in 1..Len(Top.e.a) :
          gform' = << Item(Top.e.a[k], Top.f) >> \o Rest
    /\ UNCHANGED <<gdraft, gmode, gopen, gtree, gcount, gin, gdiags, gstatus>>
    /\ UNCHANGED <<scanVars, exprVars, lexVars, sessVars>>

\* optional(e): e (parsing, only while input is left: at the end of input
\* the parse without the optional part is the one without an error)
GOptionalTake ==
    /\ Running
    /\ Top.e.t = "optional"
    /\ gmode = "parse" => gcount < Len(gin)
    /\ gform' = << Item(Top.e.a[1], Top.f) >> \o Rest
    /\ UNCHANGED <<gdraft, gmode, gopen, gtree, gcount, gin, gdiags, gstatus>>
    /\ UNCHANGED <<scanVars, exprVars, lexVars, sessVars>>

\* optional(e): nothing
GOptionalSkip ==
    /\ Running
    /\ Top.e.t = "optional"
    /\ gform' = Rest
    /\ UNCHANGED <<gdraft, gmode, gopen, gtree, gcount, gin, gdiags, gstatus>>
    /\ UNCHANGED <<scanVars, exprVars, lexVars, sessVars>>

\* repeat(e) and repeat1(e): e once more, then repeat(e)
GRepeatMore ==
    /\ Running
    /\ Top.e.t \in {"repeat", "repeat1"}
    /\ gmode = "parse" => (Top.e.t = "repeat1" \/ gcount < Len(gin))
    /\ gform' = << Item(Top.e.a[1], Top.f), Item(repeat(Top.e.a[1]), Top.f) >> \o Rest
    /\ UNCHANGED <<gdraft, gmode, gopen, gtree, gcount, gin, gdiags, gstatus>>
    /\ UNCHANGED <<scanVars, exprVars, lexVars, sessVars>>

\* repeat(e): no more
GRepeatStop ==
    /\ Running
    /\ Top.e.t = "repeat"
    /\ gform' = Rest
    /\ UNCHANGED <<gdraft, gmode, gopen, gtree, gcount, gin, gdiags, gstatus>>
    /\ UNCHANGED <<scanVars, exprVars, lexVars, sessVars>>

\* field(name, e): e, its children under the field
GField ==
    /\ Running
    /\ Top.e.t = "field"
    /\ gform' = << Item(Top.e.a[1], Top.e.s) >> \o Rest
    /\ UNCHANGED <<gdraft, gmode, gopen, gtree, gcount, gin, gdiags, gstatus>>
    /\ UNCHANGED <<scanVars, exprVars, lexVars, sessVars>>

\* prec(...)(e): e
GPrec ==
    /\ Running
    /\ Top.e.t = "prec"
    /\ gform' = << Item(Top.e.a[1], Top.f) >> \o Rest
    /\ UNCHANGED <<gdraft, gmode, gopen, gtree, gcount, gin, gdiags, gstatus>>
    /\ UNCHANGED <<scanVars, exprVars, lexVars, sessVars>>

\* $.name of a hidden rule: its body, in the node under construction
GHidden ==
    /\ Running
    /\ Top.e.t = "sym"
    /\ Top.e.s \in RuleNames(gdraft) \cap Hidden
    /\ gform' = << Item(Rules[gdraft][Top.e.s], Top.f) >> \o Rest
    /\ UNCHANGED <<gdraft, gmode, gopen, gtree, gcount, gin, gdiags, gstatus>>
    /\ UNCHANGED <<scanVars, exprVars, lexVars, sessVars>>

\* $.name of a visible rule: a new node, then its body, then its end
GRule ==
    /\ Running
    /\ Top.e.t = "sym"
    /\ Top.e.s \in RuleNames(gdraft) \ Hidden
    /\ gmode = "derive" => NodeCount < MaxNodes
    /\ Top.e.s = "expr" => ExprDepth < MaxExprDepth
    /\ gopen' = Append(gopen, [rule |-> Top.e.s, field |-> Top.f, kids |-> << >>])
    /\ gform' = << Item(Rules[gdraft][Top.e.s], ""), Item(CloseOf(Top.e.s), "") >> \o Rest
    /\ UNCHANGED <<gdraft, gmode, gtree, gcount, gin, gdiags, gstatus>>
    /\ UNCHANGED <<scanVars, exprVars, lexVars, sessVars>>

\* the end of a node: it is finished, and a child of the node around it
GClose ==
    /\ Running
    /\ Top.e.t = "close"
    /\ LET n == Len(gopen)
           node == gopen[n]
           outer == SubSeq(gopen, 1, n - 1)
       IN  /\ gtree' = Append(gtree, [rule |-> node.rule, kids |-> node.kids])
           /\ gopen' = IF n = 1 THEN outer
                       ELSE [outer EXCEPT ![n - 1].kids =
                               Append(outer[n - 1].kids,
                                      Child("node", node.rule, node.field))]
    /\ gform' = Rest
    /\ UNCHANGED <<gdraft, gmode, gcount, gin, gdiags, gstatus>>
    /\ UNCHANGED <<scanVars, exprVars, lexVars, sessVars>>

\* a token of the derived sentence
GToken ==
    /\ Running
    /\ gmode = "derive"
    /\ IsTokenItem(Top.e)
    /\ gcount < MaxTokens
    /\ gopen' = WithChild(Child("tok", Top.e.s, Top.f))
    /\ gcount' = gcount + 1
    /\ gform' = Rest
    /\ UNCHANGED <<gdraft, gmode, gtree, gin, gdiags, gstatus>>
    /\ UNCHANGED <<scanVars, exprVars, lexVars, sessVars>>

\* the words of is_keyword, by their text
Spelling ==
    [w \in {"and", "array", "call", "constant", "else", "elseif", "endfunction",
            "endglobals", "endif", "endloop", "exitwhen", "extends", "function",
            "globals", "if", "local", "loop", "native", "not", "nothing", "or",
            "return", "returns", "set", "takes", "then", "type"} |->
        CASE w = "and" -> W_and [] w = "array" -> W_array [] w = "call" -> W_call
          [] w = "constant" -> W_constant [] w = "else" -> W_else
          [] w = "elseif" -> W_elseif [] w = "endfunction" -> W_endfunction
          [] w = "endglobals" -> W_endglobals [] w = "endif" -> W_endif
          [] w = "endloop" -> W_endloop [] w = "exitwhen" -> W_exitwhen
          [] w = "extends" -> W_extends [] w = "function" -> W_function
          [] w = "globals" -> W_globals [] w = "if" -> W_if
          [] w = "local" -> W_local [] w = "loop" -> W_loop
          [] w = "native" -> W_native [] w = "not" -> W_not
          [] w = "nothing" -> W_nothing [] w = "or" -> W_or
          [] w = "return" -> W_return [] w = "returns" -> W_returns
          [] w = "set" -> W_set [] w = "takes" -> W_takes
          [] w = "then" -> W_then [] w = "type" -> W_type]

\* the literals a rule body names
RECURSIVE LitsOf(_)
LitsOf(e) ==
    IF e.t = "lit" THEN {e.s}
    ELSE IF e.t \in {"sym", "close"} THEN {}
    ELSE UNION {LitsOf(e.a[k]) : k \in 1..Len(e.a)}

\* the literals of draft d
Literals == [d \in Drafts |-> UNION {LitsOf(Rules[d][r]) : r \in RuleNames(d)}]

\* the token a word of the input is lexed as.  Drafts 1 and 3 (word: $.id):
\* a word that is a literal of the grammar is that keyword, any other word is
\* an identifier.  Draft 2 (external id): the scanner gives an identifier
\* unless is_keyword holds of the word, and then the literal is matched.
TokenOf(d, t) ==
    IF t \notin DOMAIN Spelling THEN t
    ELSE IF d = 2
      THEN (IF is_keyword(Spelling[t], Len(Spelling[t])) THEN t ELSE "id")
    ELSE IF t \in Literals[d] THEN t ELSE "id"

\* the next input token is the token expected
GMatch ==
    /\ Running
    /\ gmode = "parse"
    /\ IsTokenItem(Top.e)
    /\ gcount < Len(gin)
    /\ TokenOf(gdraft, gin[gcount + 1]) = Top.e.s
    /\ gopen' = WithChild(Child("tok", Top.e.s, Top.f))
    /\ gcount' = gcount + 1
    /\ gform' = Rest
    /\ UNCHANGED <<gdraft, gmode, gtree, gin, gdiags, gstatus>>
    /\ UNCHANGED <<scanVars, exprVars, lexVars, sessVars>>

\* the input has ended where the closing keyword of a block is required: a
\* MISSING node takes its place, with a diagnostic at the end of input
GMissing ==
    /\ Running
    /\ gmode = "parse"
    /\ Top.e.t = "lit"
    /\ Top.e.s \in Terminators
    /\ gcount = Len(gin)
    /\ gopen' = WithChild(Child("missing", Top.e.s, Top.f))
    /\ gdiags' = Append(gdiags, [at |-> gcount, expected |-> Top.e.s])
    /\ gform' = Rest
    /\ UNCHANGED <<gdraft, gmode, gtree, gcount, gin, gstatus>>
    /\ UNCHANGED <<scanVars, exprVars, lexVars, sessVars>>

\* nothing is left to derive (and, parsing, no input is left)
GFinish ==
    /\ gstatus = "running"
    /\ gform = << >>
    /\ gmode = "parse" => gcount = Len(gin)
    /\ gstatus' = "done"
    /\ UNCHANGED <<gdraft, gmode, gform, gopen, gtree, gcount, gin, gdiags>>
    /\ UNCHANGED <<scanVars, exprVars, lexVars, sessVars>>

\* the derivations of every rule that gives a node, of each draft
StartRules(d) == RuleNames(d) \ Hidden

InitGram ==
    /\ gdraft \in Drafts
    /\ gmode = "derive"
    /\ \E r \in StartRules(gdraft) : gform = << Item(sym(r), "") >>
    /\ gopen = << >>
    /\ gtree = << >>
    /\ gcount = 0
    /\ gin = << >>
    /\ gdiags = << >>
    /\ gstatus = "running"
    /\ ScanIdle
    /\ ExprIdle
    /\ LexIdle
    /\ SessIdle

NextGram ==
    \/ GSeq
    \/ GChoice
    \/ GOptionalTake
    \/ GOptionalSkip
    \/ GRepeatMore
    \/ GRepeatStop
    \/ GField
    \/ GPrec
    \/ GHidden
    \/ GRule
    \/ GClose
    \/ GToken
    \/ GFinish

SpecGram == InitGram /\ [][NextGram]_vars

(***************************************************************************)
(* Parsing.  The same rewriting, with each token matched against the       *)
(* input; the inputs are function declarations, with and without their     *)
(* endfunction.                                                            *)
(***************************************************************************)
Headers ==
    { << "function", "id", "takes", "nothing", "returns", "nothing" >>,
      << "function", "id", "takes", "id", "id", "returns", "id" >> }

\* bodies of complete statements, each with the statement nodes it holds
Bodies ==
    { [toks |-> << >>, stmts |-> << >>],
      [toks |-> << "return" >>, stmts |-> << "return_statement" >>],
      [toks |-> << "call", "id", "(", ")" >>, stmts |-> << "call_statement" >>],
      [toks |-> << "set", "id", "=", "id" >>, stmts |-> << "set_statement" >>],
      [toks |-> << "loop", "endloop" >>, stmts |-> << "loop_statement" >>],
      [toks |-> << "return", "call", "id", "(", ")" >>,
       stmts |-> << "return_statement", "call_statement" >>] }

\* a body that is itself cut short
OpenBodies == { << "loop" >>, << "loop", "return" >> }

\* blocks, to stand inside other blocks
InnerBlocks ==
    { [rule |-> "type_statement", toks |-> << "type", "id", "extends", "id" >>],
      [rule |-> "globals", toks |-> << "globals", "endglobals" >>],
      [rule |-> "native_statement",
       toks |-> << "native", "id", "takes", "nothing", "returns", "nothing" >>],
      [rule |-> "function_statement",
       toks |-> << "function", "id", "takes", "nothing", "returns", "nothing",
                   "endfunction" >>] }

\* the opening of a block up to its body
Openings ==
    { [rule |-> "globals", toks |-> << "globals" >>],
      [rule |-> "function_statement",
       toks |-> << "function", "id", "takes", "nothing", "returns", "nothing" >>],
      [rule |-> "if_statement", toks |-> << "if", "id", "then" >>],
      [rule |-> "loop_statement", toks |-> << "loop" >>] }

\* a block inside a block, with the closing keyword of the outer block and
\* without it
NestCases ==
    { [outer |-> o.rule, inner |-> b.rule,
       toks |-> o.toks \o b.toks \o << Terminator(o.rule) >>] :
      o \in Openings, b \in InnerBlocks }
    \cup { [outer |-> o.rule, inner |-> b.rule, toks |-> o.toks \o b.toks] :
           o \in Openings, b \in InnerBlocks }

NestInputs == {c.toks : c \in NestCases}

\* statements, to stand in the body of a function
Statements ==
    { << "if", "id", "then", "elseif", "id", "then", "endif" >>,
      << "if", "then", "endif" >>,
      << "if", "id", "then", "elseif", "then", "return", "else", "return", "endif" >>,
      << "set", "id", "=", "id" >>,
      << "set", "id", "[", "id", "]", "=", "id" >>,
      << "call", "id", "(", ")" >>,
      << "call", "id", "(", "id", ",", "id", ")" >>,
      << "local", "id", "id" >>,
      << "local", "constant", "id", "array", "id", "=", "id" >>,
      << "return" >>,
      << "return", "id" >>,
      << "exitwhen", "id" >>,
      << "id", "(", "id", ")" >>,
      << "loop", "exitwhen", "id", "endloop" >> }

StatementInputs ==
    { << "function", "id", "takes", "nothing", "returns", "nothing" >> \o b
        \o << "endfunction" >> : b \in Statements }
    \cup { << "globals", "constant", "id", "array", "id", ",", "id", "=", "id",
              "endglobals" >>,
            << >> }

\* a declaration without `local`, alone and as the body of each block
Declaration == << "constant", "id", "id" >>
DeclarationInputs ==
    { Declaration,
      << "globals" >> \o Declaration \o << "endglobals" >>,
      << "function", "id", "takes", "nothing", "returns", "nothing" >>
          \o Declaration \o << "endfunction" >>,
      << "if", "id", "then" >> \o Declaration \o << "endif" >>,
      << "loop" >> \o Declaration \o << "endloop" >> }

ParseInputs ==
    { h \o b.toks : h \in Headers, b \in Bodies }
    \cup { h \o b.toks \o << "endfunction" >> : h \in Headers, b \in Bodies }
    \cup { h \o b : h \in Headers, b \in OpenBodies }
    \cup NestInputs
    \cup StatementInputs
    \cup DeclarationInputs

InitParse ==
    /\ gdraft \in Drafts
    /\ gmode = "parse"
    /\ gform = << Item(sym("program"), "") >>
    /\ gopen = << >>
    /\ gtree = << >>
    /\ gcount = 0
    /\ gin \in ParseInputs
    /\ gdiags = << >>
    /\ gstatus = "running"
    /\ ScanIdle
    /\ ExprIdle
    /\ LexIdle
    /\ SessIdle

NextParse ==
    \/ GSeq
    \/ GChoice
    \/ GOptionalTake
    \/ GOptionalSkip
    \/ GRepeatMore
    \/ GRepeatStop
    \/ GField
    \/ GPrec
    \/ GHidden
    \/ GRule
    \/ GClose
    \/ GMatch
    \/ GMissing
    \/ GFinish

SpecParse == InitParse /\ [][NextParse]_vars

(***************************************************************************)
(* Blocks and their closing keywords                                       *)
(***************************************************************************)
GDone == gstatus = "done"

\* the finished nodes of a rule
NodesOf(rule) == {k \in 1..Len(gtree) : gtree[k].rule = rule}

LastKid(node) == node.kids[Len(node.kids)]

\* the children of a node that are nodes outside every field, in order
StmtKids(node) ==
    LET F[k \in 0..Len(node.kids)] ==
          IF k = 0 THEN << >>
          ELSE IF node.kids[k].kind = "node" /\ node.kids[k].field = ""
                 THEN Append(F[k - 1], node.kids[k].name)
               ELSE F[k - 1]
    IN  F[Len(node.kids)]

HasField(node, f) == \E k \in 1..Len(node.kids) : node.kids[k].field = f

\* the node ends with its closing keyword, read from the sentence
EndsWithTerminator(node) ==
    /\ node.kids # << >>
    /\ LastKid(node) = Child("tok", Terminator(node.rule), "")

\* the last member of the rule of a block
LastMember(d, rule) ==
    LET b == Rules[d][rule]
        body == IF b.t = "prec" THEN b.a[1] ELSE b
    IN  body.a[Len(body.a)]

cls(S) == [t |-> "cls", s |-> "", p |-> 0, a |-> S]
chars(cs) == seq([k \in 1..Len(cs) |-> lit(cs[k])])

\* the characters the texts are written in
LexSigma ==
    {"0", "1", "7", "A", "x", "b", "_", "u", "U", "l", "L", ".", "e", "f", "+",
     "/", "*", "a", LF, QUOTE, BACKSLASH}

HexLetter == {"a", "b", "c", "d", "e", "f", "A", "B", "C", "D", "E", "F"}

\* [^...] and . of a regular expression
NoneOf(S) == cls(LexSigma \ S)
Dot == NoneOf({LF})

decimal == repeat1(cls(Digit))
hex == cls(Digit \cup HexLetter)
bin == cls({"0", "1"})
separator == lit("_")
decimalDigits == seq(<< repeat1(decimal), repeat(seq(<< separator, repeat1(decimal) >>)) >>)
hexDigits == seq(<< repeat1(hex), repeat(seq(<< separator, repeat1(hex) >>)) >>)
binDigits == seq(<< repeat1(bin), repeat(seq(<< separator, repeat1(bin) >>)) >>)

\* A variant of number: the suffix is one letter only.
number_one_letter_suffix ==
    seq(<< choice(<< decimalDigits,
                     seq(<< lit("0"), cls({"x", "X"}), hexDigits >>),
                     seq(<< lit("0"), cls({"b", "B"}), binDigits >>) >>),
           optional(cls({"l", "L", "u", "U"})) >>)

number ==
    seq(<< choice(<< decimalDigits,
                     seq(<< lit("0"), cls({"x", "X"}), hexDigits >>),
                     seq(<< lit("0"), cls({"b", "B"}), binDigits >>) >>),
           optional(choice(<< cls({"l", "L"}),
                              seq(<< cls({"u", "U"}), optional(cls({"l", "L"})) >>) >>)) >>)

exponent == seq(<< cls({"e", "E"}), optional(cls({"+", "-"})), repeat1(cls(Digit)) >>)

\* A variant of float: the exponent of the first alternative is optional.
float_optional_exponent ==
    choice(<< seq(<< decimalDigits, optional(exponent), optional(cls({"f", "F"})) >>),
              seq(<< optional(decimalDigits), lit("."), repeat1(decimalDigits),
                     optional(exponent), optional(cls({"f", "F"})) >>),
              seq(<< decimalDigits, cls({"f", "F"}) >>) >>)

float ==
    choice(<< seq(<< decimalDigits, exponent, optional(cls({"f", "F"})) >>),
              seq(<< optional(decimalDigits), lit("."), repeat1(decimalDigits),
                     optional(exponent), optional(cls({"f", "F"})) >>),
              seq(<< decimalDigits, cls({"f", "F"}) >>) >>)

id == seq(<< cls(Lower \cup Upper \cup {"_"}),
             repeat(cls(Lower \cup Upper \cup Digit \cup {"_"})) >>)

string_token ==
    seq(<< lit(QUOTE),
           repeat(choice(<< NoneOf({QUOTE, BACKSLASH}),
                            seq(<< lit(BACKSLASH), Dot >>) >>)),
           lit(QUOTE) >>)

line_comment == seq(<< chars(<< "/", "/" >>), repeat(NoneOf({CR, LF})) >>)

\* A variant of block_comment: the closing characters are optional.
block_comment_open_end ==
    seq(<< chars(<< "/", "*" >>),
           repeat(choice(<< NoneOf({"*"}),
                            seq(<< lit("*"), NoneOf({"/"}) >>) >>)),
           optional(chars(<< "*", "/" >>)) >>)

block_comment ==
    seq(<< chars(<< "/", "*" >>),
           seq(<< repeat(NoneOf({"*"})), repeat1(lit("*")),
                  repeat(seq(<< NoneOf({"/", "*"}), repeat(NoneOf({"*"})),
                                repeat1(lit("*")) >>)) >>),
           lit("/") >>)

comment(d) ==
    IF d = 1 THEN choice(<< line_comment, block_comment >>) ELSE line_comment

\* the operator literals of expr that are written in LexSigma
Punct == {<< "/" >>, << "*" >>, << "+" >>, << "+", "+" >>}

\* the positions a match of e in s can end at, begun at a position of P
RECURSIVE Ends(_, _, _)
RECURSIVE SeqEnds(_, _, _, _)
RECURSIVE Closure(_, _, _, _)
Ends(e, s, P) ==
    CASE e.t = "lit" -> {q + 1 : q \in {r \in P : r < Len(s) /\ s[r + 1] = e.s}}
      [] e.t = "cls" -> {q + 1 : q \in {r \in P : r < Len(s) /\ s[r + 1] \in e.a}}
      [] e.t = "seq" -> SeqEnds(e.a, 1, s, P)
      [] e.t = "choice" -> UNION {Ends(e.a[k], s, P) : k \in 1..Len(e.a)}
      [] e.t = "optional" -> P \cup Ends(e.a[1], s, P)
      [] e.t = "repeat1" ->
            LET Q == Ends(e.a[1], s, P) IN Closure(e.a[1], s, Q, Q)
      [] e.t = "repeat" ->
            LET Q == Ends(e.a[1], s, P) IN P \cup Closure(e.a[1], s, Q, Q)
SeqEnds(a, k, s, P) ==
    IF k > Len(a) \/ P = {} THEN P ELSE SeqEnds(a, k + 1, s, Ends(a[k], s, P))
Closure(e, s, Frontier, Acc) ==
    LET new == Ends(e, s, Frontier) \ Acc
    IN  IF new = {} THEN Acc ELSE Closure(e, s, new, Acc \cup new)

SetMax(S) == IF S = {} THEN 0 ELSE CHOOSE m \in S : \A n \in S : n <= m

\* the length of the longest match of e at the start of s; 0 if none
MatchLen(e, s) == SetMax(Ends(e, s, {0}))

\* the token rules the lexer of draft d has (in draft 2 the identifier, the
\* comment and the string content are the external scanner's)
TokenKinds(d) ==
    {"number", "float"} \cup (IF d = 2 THEN {} ELSE {"id", "comment", "string"})

TokenRegex(d, k) ==
    CASE k = "number" -> number
      [] k = "float" -> float
      [] k = "id" -> id
      [] k = "comment" -> comment(d)
      [] k = "string" -> string_token

\* the longest match of each token rule and operator literal
Matches(d, s) ==
    {[kind |-> k, n |-> MatchLen(TokenRegex(d, k), s)] : k \in TokenKinds(d)}
    \cup {[kind |-> "op", n |-> MatchLen(chars(o), s)] : o \in Punct}

Longest(d, s) == SetMax({m.n : m \in Matches(d, s)})

MaxNumLen == 3
MaxCommentLen == 5

IntSigma == {"0", "1", "A", "x", "b", "_", "u", "l", "L"}
FloatSigma == {"0", "1", "_", ".", "e", "f", "+"}
CommentSigma == {"/", "*", "a", LF}

LexExamples ==
    { << "1", "_", "0", "0", "0", "_", "0", "0", "0" >>,
      << "0", "x", "2", "A" >>,
      << "0", "b", "1", "0", "1", "0", "1", "0" >>,
      << "3", ".", "1", "4" >>,
      << "2", ".", "5", "e", "1", "0" >>,
      << ".", "5" >>,
      << "1", "U", "L" >>, << "1", "U", "l" >>, << "0", "x", "1", "u", "L" >>,
      << "1", "e", "+", "1", "f" >>, << "1", "_", "_", "1" >>, << "4", "2", "_" >>,
      << "/", "*", "a", "*", "/", "a", "*", "/" >>,
      << QUOTE, "a", BACKSLASH, QUOTE, QUOTE >>,
      << "a", "_", "1" >> }

LexInputs ==
    UNION {[1..k -> IntSigma] : k \in 1..MaxNumLen}
    \cup UNION {[1..k -> FloatSigma] : k \in 1..MaxNumLen}
    \cup UNION {[1..k -> CommentSigma] : k \in 1..MaxCommentLen}
    \cup LexExamples

InitLex ==
    /\ ldraft \in Drafts
    /\ ltext \in LexInputs
    /\ lkind = "none"
    /\ lend = 0
    /\ lstatus = "ready"
    /\ ScanIdle
    /\ ExprIdle
    /\ GramIdle
    /\ SessIdle

\* the next token: the longest match
LexToken ==
    /\ lstatus = "ready"
    /\ Longest(ldraft, ltext) > 0
    /\ \E m \in Matches(ldraft, ltext) :
          /\ m.n = Longest(ldraft, ltext)
          /\ lkind' = m.kind
          /\ lend' = m.n
    /\ lstatus' = "done"
    /\ UNCHANGED <<ldraft, ltext>>
    /\ UNCHANGED <<scanVars, exprVars, gramVars, sessVars>>

\* no token rule matches
LexNone ==
    /\ lstatus = "ready"
    /\ Longest(ldraft, ltext) = 0
    /\ lstatus' = "done"
    /\ UNCHANGED <<ldraft, ltext, lkind, lend>>
    /\ UNCHANGED <<scanVars, exprVars, gramVars, sessVars>>

NextLex ==
    \/ LexToken
    \/ LexNone

SpecLex == InitLex /\ [][NextLex]_vars

(***************************************************************************)
(* Literals                                                                *)
(***************************************************************************)
LexDone == lstatus = "done"

\* the whole text is one token of the kind
LexedWhole(kind) == LexDone /\ lkind = kind /\ lend = Len(ltext) /\ lend > 0

\* digits of D in groups, single underscores only between digits
DigitGroups(s, D) ==
    /\ Len(s) > 0
    /\ \A k \in 1..Len(s) : s[k] \in D \cup {"_"}
    /\ s[1] \in D
    /\ s[Len(s)] \in D
    /\ \A k \in 1..(Len(s) - 1) : ~(s[k] = "_" /\ s[k + 1] = "_")

IntegerBody(s) ==
    \/ DigitGroups(s, Digit)
    \/ /\ Len(s) >= 3
       /\ s[1] = "0"
       /\ s[2] \in {"x", "X"}
       /\ DigitGroups(SubSeq(s, 3, Len(s)), Digit \cup HexLetter)
    \/ /\ Len(s) >= 3
       /\ s[1] = "0"
       /\ s[2] \in {"b", "B"}
       /\ DigitGroups(SubSeq(s, 3, Len(s)), {"0", "1"})

IntegerLiteral(s, suffixes) ==
    \E k \in 0..2 :
        /\ k < Len(s)
        /\ SubSeq(s, Len(s) - k + 1, Len(s)) \in suffixes
        /\ IntegerBody(SubSeq(s, 1, Len(s) - k))

StatedSuffixes ==
    {<< >>, << "l" >>, << "L" >>, << "u" >>, << "U" >>, << "u", "l" >>, << "U", "L" >>}
MixedSuffixes == {<< "u", "L" >>, << "U", "l" >>}

LiteralExamples ==
    /\ ltext \in { << "1", "_", "0", "0", "0", "_", "0", "0", "0" >>,
                   << "0", "x", "2", "A" >>,
                   << "0", "b", "1", "0", "1", "0", "1", "0" >> }
         => LexedWhole("number")
    /\ ltext \in { << "3", ".", "1", "4" >>, << "2", ".", "5", "e", "1", "0" >>,
                   << ".", "5" >> }
         => LexedWhole("float")

StartsBlock(s) == Len(s) >= 2 /\ s[1] = "/" /\ s[2] = "*"

\* the positions after the opening at which the characters * / stand
Closings(s) == {i \in 3..(Len(s) - 1) : s[i] = "*" /\ s[i + 1] = "/"}

\* the first of them
FirstClosing(s) == CHOOSE i \in Closings(s) : \A j \in Closings(s) : i <= j

\* in draft 1, a text that starts with the opening and has a closing is lexed
\* as a comment token that ends with the first closing
ClosedBlockComment ==
    (LexDone /\ ldraft = 1 /\ StartsBlock(ltext) /\ Closings(ltext) # {})
    => (lkind = "comment" /\ lend = FirstClosing(ltext) + 1)

\* C12 as stated: in draft 1 a comment that starts with the opening ends with
\* the first closing after it, and without a closing it is a comment token
\* that ends at the end of input.
C12_AsStated ==
    /\ ClosedBlockComment
    /\ (LexDone /\ ldraft = 1 /\ StartsBlock(ltext) /\ Closings(ltext) = {})
       => (lkind = "comment" /\ lend = Len(ltext))

\* C12: in draft 1 a comment that starts with the opening ends with the first
\* closing after it; without a closing no comment token is lexed: the token
\* is the one-character operator /.
C12_BlockComment ==
    /\ ClosedBlockComment
    /\ (LexDone /\ ldraft = 1 /\ StartsBlock(ltext) /\ Closings(ltext) = {})
       => (lkind = "op" /\ lend = 1)

C12_Witness ==
    /\ LexDone
    /\ ldraft = 1
    /\ ltext = << "/", "*", "a", "*", "/", "a", "*", "/" >>
    /\ lkind = "comment"
    /\ lend = 5

\* C13: in no draft is a text that starts with the opening of a block comment
\* lexed as a comment token.
C13_NoBlockComment ==
    (LexDone /\ StartsBlock(ltext)) => lkind # "comment"

(***************************************************************************)
(* Fields and the shape of if_statement                                    *)
(***************************************************************************)
ParseDone == GDone /\ gmode = "parse"

\* the pairs of children of a node under one field
SameField(node) ==
    {p \in (1..Len(node.kids)) \X (1..Len(node.kids)) :
        /\ p[1] < p[2]
        /\ node.kids[p[1]].field # ""
        /\ node.kids[p[1]].field = node.kids[p[2]].field}

IsKeywordKid(c, name) == c.kind = "tok" /\ c.name = name /\ c.field = ""

\* C14 as stated: in every finished parse no node has two children under the
\* same field.
C14_AsStated ==
    ParseDone => \A k \in 1..Len(gtree) : SameField(gtree[k]) = {}

\* C14: in every finished parse the only children of one node under the same
\* field are the condition children of an if_statement node, of which there
\* is at most one per if and elseif clause, right after its keyword.
C14_FieldsUnique ==
    ParseDone =>
        \A k \in 1..Len(gtree) :
            LET node == gtree[k] IN
            /\ \A p \in SameField(node) :
                  /\ node.rule = "if_statement"
                  /\ node.kids[p[1]].field = "condition"
            /\ node.rule = "if_statement" =>
                  \A i \in 1..Len(node.kids) :
                      node.kids[i].field = "condition" =>
                          /\ i > 1
                          /\ \/ IsKeywordKid(node.kids[i - 1], "if")
                             \/ IsKeywordKid(node.kids[i - 1], "elseif")

C14_Witness ==
    /\ ParseDone
    /\ gdraft = 3
    /\ \E k \in NodesOf("if_statement") :
          /\ SameField(gtree[k]) = {<< 2, 5 >>}
          /\ Len(gtree[k].kids) = 7

\* one step over the children of an if_statement node: 0 at the start, 1 after
\* if or elseif, 2 after a condition, 3 in the body of a clause, 4 in the body
\* of else, 5 after endif, 9 when the shape is broken
IfStep(q, c, strict) ==
    CASE q = 0 /\ IsKeywordKid(c, "if") -> 1
      [] q = 1 /\ c.kind = "node" /\ c.name = "expr" /\ c.field = "condition" -> 2
      [] q = 1 /\ ~strict /\ IsKeywordKid(c, "then") -> 3
      [] q = 2 /\ IsKeywordKid(c, "then") -> 3
      [] q \in {3, 4} /\ c.kind = "node" /\ c.field = "" -> q
      [] q = 3 /\ IsKeywordKid(c, "elseif") -> 1
      [] q = 3 /\ IsKeywordKid(c, "else") -> 4
      [] q \in {3, 4} /\ c.kind \in {"tok", "missing"} /\ c.name = "endif" -> 5
      [] OTHER -> 9

IfShape(d, node, strict) ==
    LET F[k \in 0..Len(node.kids)] ==
          IF k = 0 THEN 0 ELSE IfStep(F[k - 1], node.kids[k], strict)
        last == F[Len(node.kids)]
    IN  last = 5 \/ (d = 1 /\ last \in {3, 4})

\* C15 as stated: every if_statement node of a finished parse has the shape
\* if COND then body (elseif COND then body)* (else body)? endif, with a
\* condition in every if and elseif clause.
C15_AsStated ==
    ParseDone =>
        \A k \in NodesOf("if_statement") : IfShape(gdraft, gtree[k], TRUE)

\* C15: every if_statement node of a finished parse has the shape
\* if COND? then body (elseif COND? then body)* (else body)? endif, where the
\* condition of each clause may be absent (and, in draft 1, endif too).
C15_IfShape ==
    ParseDone =>
        \A k \in NodesOf("if_statement") : IfShape(gdraft, gtree[k], FALSE)

C15_Witness ==
    /\ ParseDone
    /\ gdraft = 2
    /\ \E k \in NodesOf("if_statement") :
          /\ IfShape(2, gtree[k], FALSE)
          /\ ~IfShape(2, gtree[k], TRUE)
          /\ Len(gtree[k].kids) = 9

(***************************************************************************)
(* The keyword at the start of a statement                                 *)
(***************************************************************************)
\* the node of the statement each keyword starts
NodeFor ==
    [w \in {"globals", "function", "native", "type", "if", "loop", "return",
            "exitwhen", "local", "set", "call"} |->
        CASE w = "globals" -> "globals"
          [] w = "function" -> "function_statement"
          [] w = "native" -> "native_statement"
          [] w = "type" -> "type_statement"
          [] w = "if" -> "if_statement"
          [] w = "loop" -> "loop_statement"
          [] w = "return" -> "return_statement"
          [] w = "exitwhen" -> "exitwhen_statement"
          [] w = "local" -> "local_statement"
          [] w = "set" -> "set_statement"
          [] w = "call" -> "call_statement"]

\* a step of the parse that takes the word w
Takes(w) ==
    /\ gmode = "parse"
    /\ gcount < Len(gin)
    /\ gcount' = gcount + 1
    /\ gin[gcount + 1] = w

\* the word is taken as the keyword of its statement node
AsKeyword(w) == Top.e.s = w /\ gopen[Len(gopen)].rule = NodeFor[w]

\* the word is taken as an identifier in an expression
AsIdentifier ==
    /\ Top.e.s = "id"
    /\ \E k \in 1..Len(gopen) : gopen[k].rule = "expr"

Kw(name) == Child("tok", name, "")
TokIn(name, f) == Child("tok", name, f)
NodeIn(name, f) == Child("node", name, f)

\* e or nothing
Opt(ks) == {<< >>, ks}

SetShapes ==
    { << Kw("set"), TokIn("id", "variable") >> \o index
        \o << Kw("="), NodeIn("expr", "value") >> :
      index \in Opt(<< Kw("["), NodeIn("expr", "index"), Kw("]") >>) }

CallShapes == { << Kw("call"), NodeIn("function_call", "") >> }

LocalShapes ==
    { << Kw("local") >> \o c \o << TokIn("id", "type") >> \o a
        \o << TokIn("id", "name") >> \o v :
      c \in Opt(<< Kw("constant") >>), a \in Opt(<< Kw("array") >>),
      v \in Opt(<< Kw("="), NodeIn("expr", "value") >>) }

ReturnShapes == { << Kw("return") >> \o e : e \in Opt(<< NodeIn("expr", "") >>) }

ExitwhenShapes == { << Kw("exitwhen"), NodeIn("expr", "") >> }

ShapesOf(rule) ==
    CASE rule = "set_statement" -> SetShapes
      [] rule = "call_statement" -> CallShapes
      [] rule = "local_statement" -> LocalShapes
      [] rule = "return_statement" -> ReturnShapes
      [] rule = "exitwhen_statement" -> ExitwhenShapes

FixedShapeRules ==
    {"set_statement", "call_statement", "local_statement", "return_statement",
     "exitwhen_statement"}

\* every node of the five rules has one of the shapes of its rule
ShapesHold ==
    \A k \in 1..Len(gtree) :
        gtree[k].rule \in FixedShapeRules => gtree[k].kids \in ShapesOf(gtree[k].rule)

InFunction(b) ==
    << "function", "id", "takes", "nothing", "returns", "nothing" >> \o b
        \o << "endfunction" >>

\* the inputs that hold a set and a call
SetInputs ==
    { InFunction(<< "set", "id", "=", "id" >>),
      InFunction(<< "set", "id", "[", "id", "]", "=", "id" >>) }
CallInputs ==
    { InFunction(<< "call", "id", "(", ")" >>),
      InFunction(<< "call", "id", "(", "id", ",", "id", ")" >>) }

\* the function_call children of the call_statement nodes are one each
SetAndCallNodes ==
    /\ gin \in SetInputs => Cardinality(NodesOf("set_statement")) = 1
    /\ gin \in CallInputs =>
          /\ Cardinality(NodesOf("call_statement")) = 1
          /\ Cardinality(NodesOf("function_call")) = 1

InnerRules == {"globals", "function_statement", "native_statement", "type_statement"}

\* the rules whose nodes a rule body can have as direct children
RECURSIVE ChildRulesOf(_, _)
ChildRulesOf(d, e) ==
    IF e.t = "lit" THEN {}
    ELSE IF e.t = "sym"
      THEN (IF e.s \in RuleNames(d) \cap Hidden THEN ChildRulesOf(d, Rules[d][e.s])
            ELSE IF e.s \in RuleNames(d) THEN {e.s}
            ELSE {})
    ELSE UNION {ChildRulesOf(d, e.a[k]) : k \in 1..Len(e.a)}

ChildRules == [d \in Drafts |-> [r \in BlockRules |-> ChildRulesOf(d, Rules[d][r])]]

\* the node of rule outer that has a node of rule inner as a child
HasNested(outer, inner) ==
    \E k \in NodesOf(outer) :
        \E i \in 1..Len(gtree[k].kids) :
            gtree[k].kids[i].kind = "node" /\ gtree[k].kids[i].name = inner

BufSize == 256

\* C19: the index len into the identifier buffer never exceeds 255, so the
\* write of the terminator at buf[len] is inside the 256 bytes; an identifier
\* run of up to 255 characters is emitted as one identifier token that covers
\* the run, and of a longer run the first 255 characters are emitted.
C19_LengthBound ==
    /\ len <= IdMax
    /\ len < BufSize
    /\ Len(buf) = len
    /\ (Done /\ valid_symbols[ID] /\ ~valid_symbols[STRING_CONTENT]
          /\ IdShaped(input) /\ Run(input) \notin ReservedWords)
       => /\ Emitted(ID)
          /\ len = TokenLen
          /\ TokenLen = (IF RunLen(input) <= IdMax THEN RunLen(input) ELSE IdMax)

C19_Witness ==
    /\ Emitted(ID)
    /\ Len(input) = IdMax + 1
    /\ len = IdMax
    /\ TokenLen = IdMax

(***************************************************************************)
(* Rules and the empty sentence                                            *)
(***************************************************************************)
\* no token rule matches the empty text
TokensNonEmpty ==
    \A d \in Drafts : \A k \in TokenKinds(d) :
        Ends(TokenRegex(d, k), << >>, {0}) = {}

\* C20: every finished node of a rule other than program has at least one
\* child, and so at least one token; every derivation from a rule other than
\* program has produced a token when it ends; no token rule matches the empty
\* text; program derives the empty sentence, a root with no children.
C20_NonEmptyRules ==
    /\ \A k \in 1..Len(gtree) :
          gtree[k].rule # "program" => gtree[k].kids # << >>
    /\ (GDone /\ gmode = "derive" /\ gtree[Len(gtree)].rule # "program")
          => gcount >= 1
    /\ TokensNonEmpty

C20_Witness ==
    /\ GDone
    /\ gmode = "derive"
    /\ gtree = << [rule |-> "program", kids |-> << >>] >>
    /\ gcount = 0

(***************************************************************************)
(* A session of the external scanner: create, then scans one after the     *)
(* other on inputs and flags of the caller's choice, with serialize and    *)
(* deserialize between them.  A later call of scan finds in the locals and *)
(* in lexer->result_symbol whatever the earlier call left there.           *)
(***************************************************************************)
MaxSessionLen == 1

SessionSigma == {"i", "f", SLASH, QUOTE}
\* the short inputs, and one input for each of: a comment, an escape, a
\* reserved word
SessionInputs ==
    UNION {[1..k -> SessionSigma] : k \in 0..MaxSessionLen}
      \cup {<<SLASH, SLASH, "i">>, <<BACKSLASH, QUOTE>>, W_if}
\* the inputs whose scans are compared
ProbeInputs == {<<QUOTE>>, W_if}

\* void *tree_sitter_jass_external_scanner_create() { return NULL; }
create == "NULL"

\* unsigned tree_sitter_jass_external_scanner_serialize(p, buffer) { return 0; }
serialize(p) == 0

\* void tree_sitter_jass_external_scanner_deserialize(p, b, n) {}
deserialize(p, n) == p

\* what a finished scan gave its caller: the kind and the length of the
\* token, or no match
ScanResult ==
    IF ret = "true"
      THEN [kind |-> result_symbol, length |-> TokenLen]
      ELSE [kind |-> "none", length |-> 0]

\* the results of the scans of probe, the one that has just returned included
Noted ==
    IF <<input, valid_symbols>> = probe THEN seen \cup {ScanResult} ELSE seen

InitSession ==
    /\ payload = create
    /\ written = -1
    /\ probe \in ProbeInputs \X [TokenType -> BOOLEAN]
    /\ seen = {}
    /\ input \in SessionInputs
    /\ valid_symbols \in [TokenType -> BOOLEAN]
    /\ pos = 1
    /\ pc = "comment"
    /\ result_symbol = "NONE"
    /\ ret = "none"
    /\ has_content = FALSE
    /\ buf = << >>
    /\ len = 0
    /\ ExprIdle
    /\ GramIdle
    /\ LexIdle

\* the next call of scan: a new lexer position and new flags, the same payload
ScanAgain ==
    /\ Done
    /\ seen' = Noted
    /\ input' \in SessionInputs
    /\ valid_symbols' \in [TokenType -> BOOLEAN]
    /\ pos' = 1
    /\ pc' = "comment"
    /\ ret' = "none"
    /\ UNCHANGED <<result_symbol, has_content, buf, len>>
    /\ UNCHANGED <<payload, written, probe>>
    /\ UNCHANGED <<exprVars, gramVars, lexVars>>

\* the caller saves the scanner's state after a scan
Serialize ==
    /\ Done
    /\ written' = serialize(payload)
    /\ UNCHANGED <<payload, probe, seen>>
    /\ UNCHANGED <<scanVars, exprVars, gramVars, lexVars>>

\* the caller restores the scanner's state from what serialize wrote
Deserialize ==
    /\ Done
    /\ written >= 0
    /\ payload' = deserialize(payload, written)
    /\ UNCHANGED <<written, probe, seen>>
    /\ UNCHANGED <<scanVars, exprVars, gramVars, lexVars>>

NextSession ==
    \/ ScanComment
    \/ ScanComment2
    \/ ScanCommentLoop
    \/ ScanString
    \/ ScanStringLoop
    \/ ScanStringEscape
    \/ ScanId
    \/ ScanIdLoop
    \/ ScanAgain
    \/ Serialize
    \/ Deserialize

SpecSession == InitSession /\ [][NextSession]_vars

\* C21: the scanner has no payload and serialize writes no byte; every scan
\* of the same input with the same flags gives the same result, whatever
\* scans came between.
C21_Stateless ==
    /\ payload = "NULL"
    /\ written \in {-1, 0}
    /\ Done => Cardinality(Noted) <= 1

\* the empty string content was scanned a second time, after a scan that
\* left an identifier in buf and after a serialize, with the first result
C21_Witness ==
    /\ Done
    /\ probe = <<input, valid_symbols>>
    /\ input = <<QUOTE>>
    /\ valid_symbols[STRING_CONTENT]
    /\ seen = {ScanResult}
    /\ buf = <<"i">>
    /\ written = 0

(***************************************************************************)
(* Float literals                                                          *)
(***************************************************************************)
\* the characters of the token just lexed
TokenText == SubSeq(ltext, 1, lend)

HasPoint(t) == \E k \in 1..Len(t) : t[k] = "."
\* e or E, an optional sign, a digit
HasExponent(t) ==
    \E k \in 1..Len(t) :
        /\ t[k] \in {"e", "E"}
        /\ \/ (k + 1 <= Len(t) /\ t[k + 1] \in Digit)
           \/ (k + 2 <= Len(t) /\ t[k + 1] \in {"+", "-"} /\ t[k + 2] \in Digit)
\* digits and separators only
IsDigitRun(t) == Len(t) >= 1 /\ \A k \in 1..Len(t) : t[k] \in Digit \cup {"_"}
\* a digit run and then f or F
IsSuffixedRun(t) ==
    /\ Len(t) >= 2
    /\ t[Len(t)] \in {"f", "F"}
    /\ IsDigitRun(SubSeq(t, 1, Len(t) - 1))

\* C22, as stated: a float token has a decimal point or an exponent.
C22_AsStated ==
    (LexDone /\ lkind = "float") => (HasPoint(TokenText) \/ HasExponent(TokenText))

\* C22, amended: a float token has a decimal point or an exponent, or is a
\* digit run followed by f or F; a digit run with no decimal point, no
\* exponent and no f or F after it is never a float token.
C22_FloatForms ==
    /\ (LexDone /\ lkind = "float")
          => \/ HasPoint(TokenText)
             \/ HasExponent(TokenText)
             \/ IsSuffixedRun(TokenText)
    /\ (LexDone /\ lend > 0 /\ IsDigitRun(TokenText)) => lkind # "float"

\* `1f` was lexed as one float token
C22_Witness ==
    /\ LexedWhole("float")
    /\ ldraft = 3
    /\ ltext = << "1", "f" >>

(***************************************************************************)
(* Where a declaration without `local` is accepted                         *)
(***************************************************************************)
\* the rules other than globals that have a body of statements
OtherBodies == {"program", "function_statement", "if_statement", "loop_statement"}

\* C23: in draft 3 no finished parse has a var_stmt node as a child of a
\* program, function, if or loop node.
C23_VarStmtOnlyInGlobals ==
    (ParseDone /\ gdraft = 3) => \A r \in OtherBodies : ~HasNested(r, "var_stmt")

(***************************************************************************)
(* The characters of an identifier token                                   *)
(***************************************************************************)
\* C24: an identifier token starts with a letter or an underscore and spans
\* letters, digits and underscores only, whatever the flags; so a `/` before
\* an identifier-shaped run is in no identifier token.
C24_IdentifierChars ==
    Emitted(ID) =>
        /\ TokenLen >= 1
        /\ IdShaped(input)
        /\ \A k \in 1..TokenLen : IsIdChar(input[k])

(***************************************************************************)
(* String content that starts with two slashes                             *)
(***************************************************************************)
\* C25: with string content and comment both requested and the string's
\* content starting with //, the scan gives a string content token that ends
\* before the closing quote, never a comment token.
C25_StringNotComment ==
    (Done /\ valid_symbols[STRING_CONTENT] /\ valid_symbols[COMMENT]
        /\ StartsComment(input))
    => /\ Emitted(STRING_CONTENT)
       /\ TokenLen = ContentLen(input)

(***************************************************************************)
(* Parentheses                                                             *)
(***************************************************************************)
\* the rules of each draft whose body names `(`, and those that name `)`
RulesNaming ==
    [d \in Drafts |->
        [l \in {"(", ")"} |-> {r \in RuleNames(d) : l \in LitsOf(Rules[d][r])}]]

\* the parentheses among the children of a node are those of a call: `(` is
\* the second child, after the name, and `)` is the last child
CallParens(node) ==
    \A i \in 1..Len(node.kids) :
        LET c == node.kids[i] IN
        /\ (c.kind = "tok" /\ c.name = "(") =>
              /\ node.rule = "function_call"
              /\ i = 2
              /\ node.kids[1] = Child("tok", "id", "name")
        /\ (c.kind = "tok" /\ c.name = ")") =>
              /\ node.rule = "function_call"
              /\ i >= 3
              /\ node.kids[2] = Child("tok", "(", "")
              /\ \A j \in 3..(i - 1) : node.kids[j].kind = "node"

\* C26: in every draft `(` and `)` are named by function_call alone, no
\* alternative of expr starts with `(`, and in every derivation `(` comes
\* directly after the name of a function_call and `)` closes that call.
C26_NoGrouping ==
    /\ \A d \in Drafts :
          /\ RulesNaming[d]["("] = {"function_call"}
          /\ RulesNaming[d][")"] = {"function_call"}
    /\ \A k \in 1..Len(gtree) : CallParens(gtree[k])
    /\ \A k \in 1..Len(gopen) : CallParens(gopen[k])

\* a call without arguments was derived: its name, `(` and `)`
C26_Witness ==
    /\ GDone
    /\ gmode = "derive"
    /\ gtree[Len(gtree)].rule = "function_call"
    /\ gtree[Len(gtree)].kids =
          << Child("tok", "id", "name"), Child("tok", "(", ""), Child("tok", ")", "") >>

====
